---------------------------- MODULE Spec2Model ----------------------------
(***************************************************************************)
(* State-machine model of the trustarant backend: the ingestion            *)
(* coordinator (IngestionService::refresh), the facility repository (the   *)
(* in-memory and the PostgreSQL implementation), the vote ledger and the    *)
(* sliding-window rate limiter.                                            *)
(*                                                                         *)
(* Strings the code transforms (trim, to_ascii_lowercase, format!) are     *)
(* tuples of one-character strings, so that the transformations are        *)
(* computed and not assumed.  Opaque strings are TLA+ strings.             *)
(***************************************************************************)
EXTENDS Integers, Sequences, FiniteSets, TLC

(***************************************************************************)
(* Bounds of the model.                                                    *)
(***************************************************************************)
NumCallers == 2
\* refresh() invocations in one behaviour
MaxRefreshes == 2

(***************************************************************************)
(* Program constants.                                                      *)
(***************************************************************************)
CONNECTOR_MAX_ATTEMPTS == 3
\* facilities.chunks(1_000) of PostgresFacilityRepository::replace_all, scaled
\* to the snapshot sizes of the model (a snapshot of 3 or 4 rows is 2 batches).
BatchRows == 2

\* Option<T>: None is the empty tuple, Some(v) the one-element tuple
None == <<>>
Some(v) == <<v>>
Unwrap(o) == o[1]

(***************************************************************************)
(* Text helpers: str::trim, str::to_ascii_lowercase, format!               *)
(***************************************************************************)
UpperChars == <<"A","B","C","D","E","F","G","H","I","J","K","L","M",
                "N","O","P","Q","R","S","T","U","V","W","X","Y","Z">>
LowerChars == <<"a","b","c","d","e","f","g","h","i","j","k","l","m",
                "n","o","p","q","r","s","t","u","v","w","x","y","z">>

CharToLower(c) ==
    IF \E i \in 1..Len(UpperChars) : UpperChars[i] = c
    THEN LowerChars[CHOOSE i \in 1..Len(UpperChars) : UpperChars[i] = c]
    ELSE c

to_ascii_lowercase(s) == [i \in 1..Len(s) |-> CharToLower(s[i])]

CharToUpper(c) ==
    IF \E i \in 1..Len(LowerChars) : LowerChars[i] = c
    THEN UpperChars[CHOOSE i \in 1..Len(LowerChars) : LowerChars[i] = c]
    ELSE c

to_ascii_uppercase(s) == [i \in 1..Len(s) |-> CharToUpper(s[i])]

IsWhitespace(c) == c \in {" ", "\t", "\n", "\r"}

RECURSIVE trim_start(_)
trim_start(s) ==
    IF s # <<>> /\ IsWhitespace(Head(s)) THEN trim_start(Tail(s)) ELSE s

RECURSIVE trim_end(_)
trim_end(s) ==
    IF s # <<>> /\ IsWhitespace(s[Len(s)])
    THEN trim_end(SubSeq(s, 1, Len(s) - 1))
    ELSE s

trim(s) == trim_end(trim_start(s))

(***************************************************************************)
(* Jurisdiction::code                                                      *)
(***************************************************************************)
Jurisdictions == {"LosAngelesCounty", "OrangeCounty"}

code(j) ==
    CASE j = "LosAngelesCounty" -> <<"l","a","c">>
      [] j = "SanDiegoCounty" -> <<"s","d","c">>
      [] j = "LongBeach" -> <<"l","b">>
      [] j = "RiversideCounty" -> <<"r","i","v">>
      [] j = "SanBernardinoCounty" -> <<"s","b","c">>
      [] j = "OrangeCounty" -> <<"o","c">>
      [] j = "Pasadena" -> <<"p","a","s">>

(***************************************************************************)
(* Jurisdiction::label, from_code, from_label                              *)
(***************************************************************************)
label(j) ==
    CASE j = "LosAngelesCounty" -> <<"L","o","s"," ","A","n","g","e","l","e","s"," ","C","o","u","n","t","y">>
      [] j = "SanDiegoCounty" -> <<"S","a","n"," ","D","i","e","g","o"," ","C","o","u","n","t","y">>
      [] j = "LongBeach" -> <<"L","o","n","g"," ","B","e","a","c","h">>
      [] j = "RiversideCounty" -> <<"R","i","v","e","r","s","i","d","e"," ","C","o","u","n","t","y">>
      [] j = "SanBernardinoCounty" -> <<"S","a","n"," ","B","e","r","n","a","r","d","i","n","o"," ","C","o","u","n","t","y">>
      [] j = "OrangeCounty" -> <<"O","r","a","n","g","e"," ","C","o","u","n","t","y">>
      [] j = "Pasadena" -> <<"P","a","s","a","d","e","n","a">>

from_code(c) ==
    IF \E j \in Jurisdictions : code(j) = c
    THEN Some(CHOOSE j \in Jurisdictions : code(j) = c)
    ELSE None

from_label(l) ==
    IF \E j \in Jurisdictions : to_ascii_lowercase(label(j)) = to_ascii_lowercase(l)
    THEN Some(CHOOSE j \in Jurisdictions : to_ascii_lowercase(label(j)) = to_ascii_lowercase(l))
    ELSE None

(***************************************************************************)
(* More text helpers: eq_ignore_ascii_case, contains, split_whitespace,    *)
(* Ord for str, and the search normalisation of the directory service.     *)
(***************************************************************************)
eq_ignore_ascii_case(a, b) == to_ascii_lowercase(a) = to_ascii_lowercase(b)

\* str::contains
contains(haystack, needle) ==
    \E i \in 0..(Len(haystack) - Len(needle)) :
        SubSeq(haystack, i + 1, i + Len(needle)) = needle

ends_with(s, suffix) ==
    /\ Len(s) >= Len(suffix)
    /\ SubSeq(s, Len(s) - Len(suffix) + 1, Len(s)) = suffix

\* str::split_whitespace: the maximal runs of non-whitespace characters
RECURSIVE split_whitespace(_)
split_whitespace(s) ==
    LET t == trim_start(s)
    IN  IF t = <<>> THEN <<>>
        ELSE LET n == IF \E i \in 1..Len(t) : IsWhitespace(t[i])
                      THEN (CHOOSE i \in 1..Len(t) :
                               /\ IsWhitespace(t[i])
                               /\ \A k \in 1..(i - 1) : ~IsWhitespace(t[k])) - 1
                      ELSE Len(t)
             IN  <<SubSeq(t, 1, n)>> \o split_whitespace(SubSeq(t, n + 1, Len(t)))

\* the characters of the model's strings in ascending byte order
Alphabet ==
    <<" ", "'", "-", "0","1","2","3","4","5","6","7","8","9", ":">> \o UpperChars \o
    LowerChars \o <<"|">>

CharRank(c) == CHOOSE i \in 1..Len(Alphabet) : Alphabet[i] = c

\* Ord for str: a.cmp(b) = Less
RECURSIVE StrLess(_, _)
StrLess(a, b) ==
    IF b = <<>> THEN FALSE
    ELSE IF a = <<>> THEN TRUE
    ELSE IF Head(a) = Head(b) THEN StrLess(Tail(a), Tail(b))
    ELSE CharRank(Head(a)) < CharRank(Head(b))

is_ascii_alphanumeric(c) ==
    \/ \E i \in 1..Len(UpperChars) : UpperChars[i] = c \/ LowerChars[i] = c
    \/ c \in {"0","1","2","3","4","5","6","7","8","9"}

\* the loop of normalize_for_search: rest is the input left, last_was_space
\* the flag; of the three apostrophe characters the loop drops, the model's
\* strings hold the ASCII one
RECURSIVE normalize_chars(_, _)
normalize_chars(rest, last_was_space) ==
    IF rest = <<>> THEN <<>>
    ELSE LET ch == Head(rest)
         IN  IF ch = "'"
             THEN normalize_chars(Tail(rest), last_was_space)
             ELSE IF is_ascii_alphanumeric(ch)
             THEN <<CharToLower(ch)>> \o normalize_chars(Tail(rest), FALSE)
             ELSE IF ~last_was_space
             THEN <<" ">> \o normalize_chars(Tail(rest), TRUE)
             ELSE normalize_chars(Tail(rest), TRUE)

normalize_for_search(value) == trim(normalize_chars(value, FALSE))

singularize_token(token) ==
    IF Len(token) > 4 /\ ends_with(token, <<"s">>)
    THEN SubSeq(token, 1, Len(token) - 1)
    ELSE token

tokens_match(candidate_token, query_token) ==
    \/ candidate_token = query_token
    \/ singularize_token(candidate_token) = singularize_token(query_token)
    \/ /\ Len(candidate_token) >= 4 /\ Len(query_token) >= 4
       /\ (contains(candidate_token, query_token) \/ contains(query_token, candidate_token))

(***************************************************************************)
(* TrustScoreService::score.  An f32 is a number of tenths or NaN;         *)
(* clamp(0.0, 100.0) keeps NaN, and `as u8` truncates toward zero and      *)
(* sends NaN to 0.                                                         *)
(***************************************************************************)
F32(tenths) == [nan |-> FALSE, tenths |-> tenths]
NaN == [nan |-> TRUE, tenths |-> 0]

\* faulty variant: the numeric score is not clamped
score_unclamped(signals) ==
    IF signals.raw_score # None
    THEN LET raw == Unwrap(signals.raw_score)
         IN  IF raw.nan THEN 0 ELSE raw.tenths \div 10
    ELSE IF signals.letter_grade # None
    THEN LET grade == to_ascii_uppercase(Unwrap(signals.letter_grade))
         IN  CASE grade = <<"A">> -> 95
               [] grade = <<"B">> -> 84
               [] grade = <<"C">> -> 74
               [] OTHER -> 65
    ELSE IF signals.placard_status # None
    THEN LET placard == to_ascii_lowercase(Unwrap(signals.placard_status))
         IN  CASE placard \in {<<"g","r","e","e","n">>, <<"p","a","s","s">>} -> 95
               [] placard \in {<<"y","e","l","l","o","w">>,
                               <<"c","o","n","d","i","t","i","o","n","a","l">>} -> 74
               [] placard \in {<<"r","e","d">>, <<"c","l","o","s","e","d">>} -> 40
               [] OTHER -> 60
    ELSE 60

\* faulty variant: the numeric score is rounded to the nearest integer
score_rounded(signals) ==
    IF signals.raw_score # None
    THEN LET raw == Unwrap(signals.raw_score)
         IN  IF raw.nan THEN 0
             ELSE LET clamped == IF raw.tenths < 0 THEN 0
                                 ELSE IF raw.tenths > 1000 THEN 1000
                                 ELSE raw.tenths
                  IN  (clamped + 5) \div 10
    ELSE IF signals.letter_grade # None
    THEN LET grade == to_ascii_uppercase(Unwrap(signals.letter_grade))
         IN  CASE grade = <<"A">> -> 95
               [] grade = <<"B">> -> 84
               [] grade = <<"C">> -> 74
               [] OTHER -> 65
    ELSE IF signals.placard_status # None
    THEN LET placard == to_ascii_lowercase(Unwrap(signals.placard_status))
         IN  CASE placard \in {<<"g","r","e","e","n">>, <<"p","a","s","s">>} -> 95
               [] placard \in {<<"y","e","l","l","o","w">>,
                               <<"c","o","n","d","i","t","i","o","n","a","l">>} -> 74
               [] placard \in {<<"r","e","d">>, <<"c","l","o","s","e","d">>} -> 40
               [] OTHER -> 60
    ELSE 60

score(signals) ==
    IF signals.raw_score # None
    THEN LET raw == Unwrap(signals.raw_score)
         IN  IF raw.nan THEN 0
             ELSE LET clamped == IF raw.tenths < 0 THEN 0
                                 ELSE IF raw.tenths > 1000 THEN 1000
                                 ELSE raw.tenths
                  IN  clamped \div 10
    ELSE IF signals.letter_grade # None
    THEN LET grade == to_ascii_uppercase(Unwrap(signals.letter_grade))
         IN  CASE grade = <<"A">> -> 95
               [] grade = <<"B">> -> 84
               [] grade = <<"C">> -> 74
               [] OTHER -> 65
    ELSE IF signals.placard_status # None
    THEN LET placard == to_ascii_lowercase(Unwrap(signals.placard_status))
         IN  CASE placard \in {<<"g","r","e","e","n">>, <<"p","a","s","s">>} -> 95
               [] placard \in {<<"y","e","l","l","o","w">>,
                               <<"c","o","n","d","i","t","i","o","n","a","l">>} -> 74
               [] placard \in {<<"r","e","d">>, <<"c","l","o","s","e","d">>} -> 40
               [] OTHER -> 60
    ELSE 60

(***************************************************************************)
(* Source records (SourceFacilityInput) the connectors can return: two     *)
(* records with one dedupe key (differing in case and surrounding blanks), *)
(* two records with one facility id and two dedupe keys, and five dedupe   *)
(* keys in all.                                                            *)
(***************************************************************************)
SourceRecord(sid, name, j, at, raw, letter, placard) ==
    [source_id |-> sid, name |-> name, address |-> <<"1"," ","A">>,
     city |-> <<"L","A">>, postal_code |-> <<"9">>,
     latitude |-> 0, longitude |-> 0, jurisdiction |-> j,
     inspected_at |-> at, raw_score |-> raw, letter_grade |-> letter,
     placard_status |-> placard]

RecJoeOld == SourceRecord(<<"1">>, <<"J","o","e">>, "LosAngelesCounty", 1, Some(F32(912)), None, None)
RecJoeNew == SourceRecord(<<"1">>, <<" ","J","O","E"," ">>, "LosAngelesCounty", 2, None, Some(<<"b">>), None)
RecMoe == SourceRecord(<<"1">>, <<"M","o","e">>, "LosAngelesCounty", 1, None, None, Some(<<"Y","e","l","l","o","w">>))
RecZoe == SourceRecord(<<"2">>, <<"Z","o","e">>, "OrangeCounty", 1, None, None, None)
RecBo == SourceRecord(<<"3">>, <<"B","o">>, "OrangeCounty", 2, Some(F32(1200)), Some(<<"C">>), None)

RecAl == SourceRecord(<<"4">>, <<"A","l">>, "LosAngelesCounty", 1, Some(NaN), None, None)

RecordPool == {RecJoeOld, RecJoeNew, RecMoe, RecZoe, RecBo, RecAl}

\* Vec<SourceFacilityInput> values a fetch can return
FetchResults ==
    {<<>>, <<RecJoeNew, RecJoeOld>>, <<RecJoeOld, RecMoe>>, <<RecZoe, RecBo>>,
     <<RecAl, RecJoeNew>>}

\* the configured connectors, by source_name, in configured order
Connectors == <<"la_county_open_data", "san_diego_socrata">>
NumConnectors == Len(Connectors)

(***************************************************************************)
(* dedupe_key                                                              *)
(***************************************************************************)
dedupe_key(record) ==
    to_ascii_lowercase(trim(record.name)) \o <<"|">> \o
    to_ascii_lowercase(trim(record.address)) \o <<"|">> \o
    to_ascii_lowercase(trim(record.city)) \o <<"|">> \o
    to_ascii_lowercase(trim(record.postal_code))

(***************************************************************************)
(* The entry API of the stitching loop of refresh: and_modify replaces the *)
(* current record only by a strictly later inspection, or_insert adds it.  *)
(***************************************************************************)
\* faulty variant: the later record in fetch order wins, whatever its inspected_at
StitchEntry_lastWins(map, record) == (dedupe_key(record) :> record) @@ map

StitchEntry(map, record) ==
    LET key == dedupe_key(record)
    IN  IF key \in DOMAIN map
        THEN IF map[key].inspected_at < record.inspected_at
             THEN [map EXCEPT ![key] = record]
             ELSE map
        ELSE (key :> record) @@ map

RECURSIVE StitchAll(_, _)
StitchAll(map, records) ==
    IF records = <<>> THEN map
    ELSE StitchAll(StitchEntry(map, Head(records)), Tail(records))

(***************************************************************************)
(* IngestionService::normalize                                             *)
(***************************************************************************)
\* faulty variant: the facility is built without its inspection
normalize_noInspection(record) ==
    [id |-> code(record.jurisdiction) \o <<":",":">> \o record.source_id,
     source_id |-> record.source_id,
     name |-> record.name,
     address |-> record.address,
     city |-> record.city,
     postal_code |-> record.postal_code,
     latitude |-> record.latitude,
     longitude |-> record.longitude,
     jurisdiction |-> record.jurisdiction,
     trust_score |-> score([raw_score |-> record.raw_score,
                            letter_grade |-> record.letter_grade,
                            placard_status |-> record.placard_status]),
     inspections |-> <<>>,
     updated_at |-> 0]

normalize(record) ==
    [id |-> code(record.jurisdiction) \o <<":",":">> \o record.source_id,
     source_id |-> record.source_id,
     name |-> record.name,
     address |-> record.address,
     city |-> record.city,
     postal_code |-> record.postal_code,
     latitude |-> record.latitude,
     longitude |-> record.longitude,
     jurisdiction |-> record.jurisdiction,
     trust_score |-> score([raw_score |-> record.raw_score,
                            letter_grade |-> record.letter_grade,
                            placard_status |-> record.placard_status]),
     inspections |-> << [inspection_id |-> code(record.jurisdiction) \o <<"-">> \o record.source_id,
                         inspected_at |-> record.inspected_at,
                         raw_score |-> record.raw_score,
                         letter_grade |-> record.letter_grade,
                         placard_status |-> record.placard_status] >>,
     updated_at |-> 0]

\* HashMap::into_values yields the values in an unspecified order: the model
\* draws it from two orders of the keys, by the rank below and its reverse
KeyRank(key) ==
    LET ranked == <<dedupe_key(RecAl), dedupe_key(RecBo), dedupe_key(RecJoeOld),
                    dedupe_key(RecMoe), dedupe_key(RecZoe)>>
    IN  CHOOSE i \in 1..Len(ranked) : ranked[i] = key

RECURSIVE Ascending(_)
Ascending(S) ==
    IF S = {} THEN <<>>
    ELSE LET first == CHOOSE k \in S : \A o \in S : KeyRank(k) <= KeyRank(o)
         IN  <<first>> \o Ascending(S \ {first})

Reverse(o) == [i \in 1..Len(o) |-> o[Len(o) + 1 - i]]

Orderings(S) == {Ascending(S), Reverse(Ascending(S))}

(***************************************************************************)
(* State.                                                                  *)
(*   repo_kind         which FacilityRepository build_repository chose     *)
(*   facilities        the active snapshot as readers see it (the Vec      *)
(*                     under the RwLock, or the committed rows of the      *)
(*                     facilities table)                                   *)
(*   ingestion_status  Option<SystemIngestionStatus> (the slot, or row 1)  *)
(*   refresh_lock      0 when free, else the caller holding the guard      *)
(*   refresh           per refresh() caller: its position and locals       *)
(*   started           refresh() invocations so far                        *)
(*   returned          what the refresh() that returned last returned      *)
(*   votes             the vote ledger: (facility_id, voter_key) -> vote   *)
(*   upserts           per upsert_facility_vote call in flight: position   *)
(*                     and arguments                                       *)
(*   upsert_count      upsert_facility_vote invocations so far             *)
(*   ever_voted        history: the (facility_id, voter_key) pairs of the  *)
(*                     upserts whose write was applied                     *)
(*   last_summary      what the upsert that returned last returned         *)
(*   limiter           RateLimiter.inner: key -> queue of accept instants  *)
(*   max_requests, window   the RateLimiter configuration                  *)
(*   now               Instant::now(), in ticks                            *)
(*   search            the last answered search: implementation, query,    *)
(*                     instant and result                                  *)
(*   picks             the top-picks request in progress or answered last  *)
(*   last_score        the last TrustScoreService::score call: its signals *)
(*                     and its result                                      *)
(*   vote_requests     per handler of POST /facilities/{id}/vote: its      *)
(*                     position, its inputs and its answer                 *)
(*   vote_request_count   vote requests received so far                    *)
(*   last_allow        the last allow() call: its key, its return value    *)
(*                     and how many instants it dropped from the queue     *)
(*   scheduler         the task of scheduler::run: its position, the ticks *)
(*                     it has consumed and what its refreshes returned     *)
(*   accepted          the 202 answers of POST /system/refresh so far      *)
(***************************************************************************)
VARIABLES repo_kind, facilities, ingestion_status, refresh_lock, refresh,
          started, returned,
          votes, upserts, upsert_count, ever_voted, last_summary,
          limiter, max_requests, window, now, last_allow,
          search, picks,
          last_score, vote_requests, vote_request_count,
          scheduler, accepted

ingestVars == <<facilities, ingestion_status, refresh_lock, refresh, started, returned>>
voteVars == <<votes, upserts, upsert_count, ever_voted, last_summary>>
limiterVars == <<limiter, max_requests, window, now, last_allow>>
readVars == <<search, picks>>
frontVars == <<last_score, vote_requests, vote_request_count>>

vars == <<repo_kind, ingestVars, voteVars, limiterVars, readVars, frontVars, scheduler, accepted>>

\* what the actions of one part leave alone
notIngest == <<repo_kind, voteVars, limiterVars, readVars, frontVars, scheduler, accepted>>
notVotes == <<repo_kind, ingestVars, limiterVars, readVars, frontVars, scheduler, accepted>>
notLimiter == <<repo_kind, ingestVars, voteVars, readVars, frontVars, scheduler, accepted>>
notReads == <<repo_kind, ingestVars, voteVars, limiterVars, frontVars, scheduler, accepted>>
notFront == <<repo_kind, ingestVars, voteVars, limiterVars, readVars, scheduler, accepted>>
notScheduler == <<repo_kind, voteVars, limiterVars, readVars, frontVars, accepted>>

Callers == 1..NumCallers

\* A caller outside refresh().  pre_facilities, pre_status, fetched and called are history of the running
\* call: what list() and get_system_ingestion_status() returned when it took
\* the lock, the records its successful connectors returned, the connectors
\* whose fetch_with_retry returned Err, and the repository writes it has
\* invoked.
IdleCall ==
    [pc |-> "idle", previous_status |-> None, stitched |-> <<>>,
     connector_stats |-> <<>>, successful_connectors |-> 0, connector |-> 0,
     attempt |-> 0, backoff_seconds |-> 0,
     facilities |-> <<>>, transaction |-> None,
     fetched |-> {}, failed |-> {}, pre_facilities |-> <<>>, pre_status |-> None,
     called |-> {}]

Max(a, b) == IF a >= b THEN a ELSE b

\* FacilityRepository::list
list == facilities

\* FacilityRepository::get_by_id
get_by_id(id) ==
    IF \E i \in 1..Len(facilities) : facilities[i].id = id
    THEN Some(facilities[CHOOSE i \in 1..Len(facilities) :
                  /\ facilities[i].id = id
                  /\ \A j \in 1..(i - 1) : facilities[j].id # id])
    ELSE None

\* FacilityRepository::get_system_ingestion_status: Ok(slot); the PostgreSQL
\* query can also fail.
GetStatusOutcomes ==
    {[ok |-> TRUE, value |-> ingestion_status]} \cup
    (IF repo_kind = "postgres" THEN {[ok |-> FALSE, value |-> None]} ELSE {})

\* Result::ok().flatten()
OkFlatten(r) == IF r.ok THEN r.value ELSE None

InitIngest ==
    /\ facilities = <<>>
    /\ ingestion_status = None
    /\ refresh_lock = 0
    /\ refresh = [p \in Callers |-> IdleCall]
    /\ started = 0
    /\ returned = "none"

NumHandlers == 2
MaxVoteRequests == 3

Handlers == 1..NumHandlers

IdleRequest ==
    [pc |-> "idle", id |-> <<>>, voter_key |-> "", vote |-> "", status |-> 0,
     allowed |-> FALSE, summary |-> None]

\* no score has been computed and no vote request received
InitFront ==
    /\ last_score = None
    /\ vote_requests = [h \in Handlers |-> IdleRequest]
    /\ vote_request_count = 0
    /\ accepted = 0

\* background ingestion is not enabled: scheduler::run is not spawned
NoScheduler == [pc |-> "off", ticks |-> 0, log |-> <<>>]

\* no search and no top-picks request has been answered
InitReads ==
    /\ search = None
    /\ picks = None

(***************************************************************************)
(* IngestionService::refresh, one action per suspension point.             *)
(***************************************************************************)
\* a caller (scheduler tick, POST /system/refresh task, startup) enters refresh()
RefreshCall(p) ==
    /\ refresh[p].pc = "idle"
    /\ started < MaxRefreshes
    /\ started' = started + 1
    /\ refresh' = [refresh EXCEPT ![p].pc = "lock"]
    /\ UNCHANGED <<facilities, ingestion_status, refresh_lock, returned>>
    /\ UNCHANGED notIngest

\* faulty variant: lock() never waits
LockAvailable_always == TRUE

LockAvailable == refresh_lock = 0

\* let _guard = self.refresh_lock.lock().await
AcquireLock(p) ==
    /\ refresh[p].pc = "lock"
    /\ LockAvailable
    /\ refresh_lock' = p
    /\ refresh' = [refresh EXCEPT ![p].pc = "read_status",
                                  ![p].pre_facilities = list,
                                  ![p].pre_status = ingestion_status]
    /\ UNCHANGED <<facilities, ingestion_status, started, returned>>
    /\ UNCHANGED notIngest

\* let previous_status = ...get_system_ingestion_status().await.ok().flatten()
ReadPreviousStatus(p) ==
    /\ refresh[p].pc = "read_status"
    /\ \E r \in GetStatusOutcomes :
         refresh' = [refresh EXCEPT ![p].pc = "fetch",
                                    ![p].previous_status = OkFlatten(r),
                                    ![p].connector = 1,
                                    ![p].attempt = 0]
    /\ UNCHANGED <<facilities, ingestion_status, refresh_lock, started, returned>>
    /\ UNCHANGED notIngest

\* after the match arm of connector c: the next connector, or the gates
AfterConnector(c) ==
    [c EXCEPT !.connector = c.connector + 1,
              !.attempt = 0,
              !.pc = IF c.connector >= NumConnectors THEN "gate" ELSE "fetch"]

\* faulty variant: fetched_records counts the records left after the dedup
FetchOk_countsDeduped(p, records) ==
    /\ refresh[p].pc = "fetch"
    /\ LET c == refresh[p]
           d == [c EXCEPT !.successful_connectors = c.successful_connectors + 1,
                          !.connector_stats = Append(c.connector_stats,
                               [source |-> Connectors[c.connector],
                                fetched_records |-> Cardinality(DOMAIN StitchAll(<<>>, records)),
                                error |-> None]),
                          !.stitched = StitchAll(c.stitched, records),
                          !.fetched = c.fetched \cup {records[i] : i \in 1..Len(records)}]
       IN  refresh' = [refresh EXCEPT ![p] = AfterConnector(d)]
    /\ UNCHANGED <<facilities, ingestion_status, refresh_lock, started, returned>>
    /\ UNCHANGED notIngest

\* fetch_with_retry: an attempt returns Ok(records); refresh records the
\* connector's status and stitches the records
FetchOk(p, records) ==
    /\ refresh[p].pc = "fetch"
    /\ LET c == refresh[p]
           d == [c EXCEPT !.successful_connectors = c.successful_connectors + 1,
                          !.connector_stats = Append(c.connector_stats,
                               [source |-> Connectors[c.connector],
                                fetched_records |-> Len(records),
                                error |-> None]),
                          !.stitched = StitchAll(c.stitched, records),
                          !.fetched = c.fetched \cup {records[i] : i \in 1..Len(records)}]
       IN  refresh' = [refresh EXCEPT ![p] = AfterConnector(d)]
    /\ UNCHANGED <<facilities, ingestion_status, refresh_lock, started, returned>>
    /\ UNCHANGED notIngest

\* faulty variant: the same wait before every retry
backoff_seconds_fixed(attempt) == 2

\* let backoff_seconds = (attempt as u64) * 2
backoff_seconds(attempt) == attempt * 2

\* fetch_with_retry: an attempt fails and attempt < CONNECTOR_MAX_ATTEMPTS:
\* sleep(backoff_seconds) is entered.  `attempt` counts the attempts that
\* have returned; the loop's own counter is one more while a call is pending.
FetchErrRetry(p) ==
    /\ refresh[p].pc = "fetch"
    /\ refresh[p].attempt + 1 < CONNECTOR_MAX_ATTEMPTS
    /\ refresh' = [refresh EXCEPT
          ![p].attempt = refresh[p].attempt + 1,
          ![p].backoff_seconds = backoff_seconds(refresh[p].attempt + 1),
          ![p].pc = "sleep"]
    /\ UNCHANGED <<facilities, ingestion_status, refresh_lock, started, returned>>
    /\ UNCHANGED notIngest

\* the sleep is over: the loop makes the next attempt
Sleep(p) ==
    /\ refresh[p].pc = "sleep"
    /\ refresh' = [refresh EXCEPT ![p].pc = "fetch", ![p].backoff_seconds = 0]
    /\ UNCHANGED <<facilities, ingestion_status, refresh_lock, started, returned>>
    /\ UNCHANGED notIngest

\* faulty variant: the connector's error is propagated with `?`
FetchErrFinal_propagates(p) ==
    /\ refresh[p].pc = "fetch"
    /\ ~(refresh[p].attempt + 1 < CONNECTOR_MAX_ATTEMPTS)
    /\ refresh' = [refresh EXCEPT ![p] = IdleCall]
    /\ refresh_lock' = 0
    /\ returned' = "fetch failed"
    /\ UNCHANGED <<facilities, ingestion_status, started>>
    /\ UNCHANGED notIngest

\* fetch_with_retry: the last attempt fails; refresh records the error
FetchErrFinal(p) ==
    /\ refresh[p].pc = "fetch"
    /\ ~(refresh[p].attempt + 1 < CONNECTOR_MAX_ATTEMPTS)
    /\ LET c == refresh[p]
           d == [c EXCEPT !.connector_stats = Append(c.connector_stats,
                               [source |-> Connectors[c.connector],
                                fetched_records |-> 0,
                                error |-> Some("fetch failed")]),
                          !.failed = c.failed \cup {c.connector}]
       IN  refresh' = [refresh EXCEPT ![p] = AfterConnector(d)]
    /\ UNCHANGED <<facilities, ingestion_status, refresh_lock, started, returned>>
    /\ UNCHANGED notIngest

\* faulty variant: the guard is kept when refresh returns
Return_keepsLock(p, res) ==
    /\ refresh' = [refresh EXCEPT ![p] = IdleCall]
    /\ refresh_lock' = refresh_lock
    /\ returned' = res
    /\ UNCHANGED started

\* refresh returns: the guard is dropped with the locals
Return(p, res) ==
    /\ refresh' = [refresh EXCEPT ![p] = IdleCall]
    /\ refresh_lock' = IF refresh_lock = p THEN 0 ELSE refresh_lock
    /\ returned' = res
    /\ UNCHANGED started

\* the three safety gates
NoConnectorSucceeded(c) == c.successful_connectors = 0

\* faulty variant: the empty-result gate is missing
StitchedIsEmpty_skipped(c) == FALSE

StitchedIsEmpty(c) == DOMAIN c.stitched = {}

\* faulty variant: a third of the previous count instead of half
minimum_safe_count_third(previous) == Max(previous.unique_facilities \div 3, 1)

minimum_safe_count(previous) == Max(previous.unique_facilities \div 2, 1)

\* faulty variant: the gate compares with the stored status, whatever the
\* read at the start returned
TooSmall_againstStored(c) ==
    /\ c.pre_status # None
    /\ Cardinality(DOMAIN c.stitched) < minimum_safe_count(Unwrap(c.pre_status))

TooSmall(c) ==
    /\ c.previous_status # None
    /\ Cardinality(DOMAIN c.stitched) < minimum_safe_count(Unwrap(c.previous_status))

GateError(c) ==
    IF NoConnectorSucceeded(c) THEN "no connectors succeeded"
    ELSE IF StitchedIsEmpty(c) THEN "ingestion produced zero facilities"
    ELSE IF TooSmall(c) THEN "ingestion result too small"
    ELSE "pass"

\* the gates fail: anyhow::bail!
GateFail(p) ==
    /\ refresh[p].pc = "gate"
    /\ GateError(refresh[p]) # "pass"
    /\ Return(p, GateError(refresh[p]))
    /\ UNCHANGED <<facilities, ingestion_status>>
    /\ UNCHANGED notIngest

\* the gates pass: stitched.into_values().map(normalize).collect()
GatePass(p) ==
    /\ refresh[p].pc = "gate"
    /\ GateError(refresh[p]) = "pass"
    /\ \E order \in Orderings(DOMAIN refresh[p].stitched) :
         refresh' = [refresh EXCEPT
            ![p].pc = "replace_all",
            ![p].facilities = [i \in 1..Len(order) |-> normalize(refresh[p].stitched[order[i]])]]
    /\ UNCHANGED <<facilities, ingestion_status, refresh_lock, started, returned>>
    /\ UNCHANGED notIngest

\* faulty variant: the votes are dropped with the snapshot
MemReplaceAll_dropsVotes(p) ==
    /\ refresh[p].pc = "replace_all"
    /\ repo_kind = "memory"
    /\ facilities' = refresh[p].facilities
    /\ votes' = <<>>
    /\ refresh' = [refresh EXCEPT ![p].pc = "set_status",
                                  ![p].called = @ \cup {"replace_all"}]
    /\ UNCHANGED <<ingestion_status, refresh_lock, started, returned>>
    /\ UNCHANGED <<repo_kind, upserts, upsert_count, ever_voted, last_summary,
                   limiterVars, readVars, frontVars, scheduler, accepted>>

(***************************************************************************)
(* InMemoryFacilityRepository::replace_all: the Vec is swapped under the   *)
(* write lock, in one step for every reader.                               *)
(***************************************************************************)
MemReplaceAll(p) ==
    /\ refresh[p].pc = "replace_all"
    /\ repo_kind = "memory"
    /\ facilities' = refresh[p].facilities
    /\ refresh' = [refresh EXCEPT ![p].pc = "set_status",
                                  ![p].called = @ \cup {"replace_all"}]
    /\ UNCHANGED <<ingestion_status, refresh_lock, started, returned>>
    /\ UNCHANGED notIngest

(***************************************************************************)
(* PostgresFacilityRepository::replace_all: BEGIN, TRUNCATE, one INSERT    *)
(* per batch, COMMIT.  `transaction` is the table as the open transaction  *)
(* sees it; readers see `facilities`, the committed rows.                  *)
(***************************************************************************)
PgBegin(p) ==
    /\ refresh[p].pc = "replace_all"
    /\ repo_kind = "postgres"
    /\ refresh' = [refresh EXCEPT ![p].pc = "pg_truncate",
                                  ![p].transaction = Some(facilities),
                                  ![p].called = @ \cup {"replace_all"}]
    /\ UNCHANGED <<facilities, ingestion_status, refresh_lock, started, returned>>
    /\ UNCHANGED notIngest

\* faulty variant: TRUNCATE runs outside the transaction and is visible at once
PgTruncate_autocommit(p) ==
    /\ refresh[p].pc = "pg_truncate"
    /\ facilities' = <<>>
    /\ refresh' = [refresh EXCEPT
          ![p].pc = IF refresh[p].facilities # <<>> THEN "pg_insert" ELSE "pg_commit",
          ![p].transaction = Some(<<>>)]
    /\ UNCHANGED <<ingestion_status, refresh_lock, started, returned>>
    /\ UNCHANGED notIngest

\* TRUNCATE TABLE facilities, inside the transaction
PgTruncate(p) ==
    /\ refresh[p].pc = "pg_truncate"
    /\ refresh' = [refresh EXCEPT
          ![p].pc = IF refresh[p].facilities # <<>> THEN "pg_insert" ELSE "pg_commit",
          ![p].transaction = Some(<<>>)]
    /\ UNCHANGED <<facilities, ingestion_status, refresh_lock, started, returned>>
    /\ UNCHANGED notIngest

\* the rows of the next batch: facilities.chunks(BatchRows)
NextChunk(c) ==
    LET done == Len(Unwrap(c.transaction))
        last == IF done + BatchRows < Len(c.facilities)
                THEN done + BatchRows ELSE Len(c.facilities)
    IN  SubSeq(c.facilities, done + 1, last)

\* id TEXT PRIMARY KEY: the INSERT is refused when two rows share an id
PrimaryKeyHolds(rows) ==
    \A i, j \in 1..Len(rows) : rows[i].id = rows[j].id => i = j

PgInsertChunk(p) ==
    /\ refresh[p].pc = "pg_insert"
    /\ LET c == refresh[p]
           rows == Unwrap(c.transaction) \o NextChunk(c)
       IN  /\ PrimaryKeyHolds(rows)
           /\ refresh' = [refresh EXCEPT
                 ![p].transaction = Some(rows),
                 ![p].pc = IF Len(rows) >= Len(c.facilities) THEN "pg_commit" ELSE "pg_insert"]
    /\ UNCHANGED <<facilities, ingestion_status, refresh_lock, started, returned>>
    /\ UNCHANGED notIngest

\* the INSERT violates the primary key: the statement fails, `?` returns and
\* the dropped transaction rolls back
PgInsertConflict(p) ==
    /\ refresh[p].pc = "pg_insert"
    /\ ~PrimaryKeyHolds(Unwrap(refresh[p].transaction) \o NextChunk(refresh[p]))
    /\ Return(p, "replace_all failed")
    /\ UNCHANGED <<facilities, ingestion_status>>
    /\ UNCHANGED notIngest

\* transaction.commit(): the rows of the transaction become the visible table
PgCommit(p) ==
    /\ refresh[p].pc = "pg_commit"
    /\ facilities' = Unwrap(refresh[p].transaction)
    /\ refresh' = [refresh EXCEPT ![p].pc = "set_status", ![p].transaction = None]
    /\ UNCHANGED <<ingestion_status, refresh_lock, started, returned>>
    /\ UNCHANGED notIngest

\* faulty variant: the error of replace_all is dropped and refresh goes on
PgReplaceFail_ignored(p) ==
    /\ repo_kind = "postgres"
    /\ refresh[p].pc \in {"replace_all", "pg_truncate", "pg_insert", "pg_commit"}
    /\ refresh' = [refresh EXCEPT ![p].pc = "set_status", ![p].transaction = None]
    /\ UNCHANGED <<facilities, ingestion_status, refresh_lock, started, returned>>
    /\ UNCHANGED notIngest

\* any statement of the transaction (BEGIN, TRUNCATE, INSERT, COMMIT) fails
\* on the database side: `?` returns and the transaction rolls back
PgReplaceFail(p) ==
    /\ repo_kind = "postgres"
    /\ refresh[p].pc \in {"replace_all", "pg_truncate", "pg_insert", "pg_commit"}
    /\ Return(p, "replace_all failed")
    /\ UNCHANGED <<facilities, ingestion_status>>
    /\ UNCHANGED notIngest

(***************************************************************************)
(* set_system_ingestion_status and the end of refresh                      *)
(***************************************************************************)
StatusSnapshot(c) ==
    [unique_facilities |-> Len(c.facilities), connector_stats |-> c.connector_stats]

SetStatus(p) ==
    /\ refresh[p].pc = "set_status"
    /\ ingestion_status' = Some(StatusSnapshot(refresh[p]))
    /\ Return(p, "Ok")
    /\ UNCHANGED facilities
    /\ UNCHANGED notIngest

\* the PostgreSQL upsert of row 1 fails
SetStatusFail(p) ==
    /\ refresh[p].pc = "set_status"
    /\ repo_kind = "postgres"
    /\ Return(p, "set_system_ingestion_status failed")
    /\ UNCHANGED <<facilities, ingestion_status>>
    /\ UNCHANGED notIngest

NextIngest ==
    \E p \in Callers :
        \/ RefreshCall(p)
        \/ AcquireLock(p)
        \/ ReadPreviousStatus(p)
        \/ \E records \in FetchResults : FetchOk(p, records)
        \/ FetchErrRetry(p)
        \/ Sleep(p)
        \/ FetchErrFinal(p)
        \/ GateFail(p)
        \/ GatePass(p)
        \/ MemReplaceAll(p)
        \/ PgBegin(p)
        \/ PgTruncate(p)
        \/ PgInsertChunk(p)
        \/ PgInsertConflict(p)
        \/ PgCommit(p)
        \/ PgReplaceFail(p)
        \/ SetStatus(p)
        \/ SetStatusFail(p)

(***************************************************************************)
(* The vote ledger.  upsert_facility_vote writes the entry (the HashMap    *)
(* insert under the write lock, or INSERT .. ON CONFLICT DO UPDATE) and    *)
(* then, in a second step, reads the tallies of the facility (the loop     *)
(* under the read lock, or the SELECT of get_facility_vote_summaries).     *)
(***************************************************************************)
NumUpsertCalls == 2
MaxUpserts == 3

UpsertCalls == 1..NumUpsertCalls
FacilityIds == {normalize(RecJoeOld).id, normalize(RecZoe).id}
VoterKeys == {"v1", "v2"}
VoteValues == {"Like", "Dislike"}

IdleUpsert == [pc |-> "idle", facility_id |-> "", voter_key |-> "", vote |-> ""]

InitVotes ==
    /\ votes = <<>>
    /\ upserts = [u \in UpsertCalls |-> IdleUpsert]
    /\ upsert_count = 0
    /\ ever_voted = {}
    /\ last_summary = None

\* HashMap::insert / ON CONFLICT (facility_id, voter_key) DO UPDATE SET vote
\* faulty variant: an existing entry is kept (ON CONFLICT DO NOTHING)
LedgerInsert_keepsFirst(ledger, key, vote) ==
    IF key \in DOMAIN ledger THEN ledger ELSE (key :> vote) @@ ledger

LedgerInsert(ledger, key, vote) ==
    IF key \in DOMAIN ledger
    THEN [ledger EXCEPT ![key] = vote]
    ELSE (key :> vote) @@ ledger

\* the tallies of one facility: the counting loop of the in-memory upsert,
\* SUM(CASE WHEN vote = 1 ..) / SUM(CASE WHEN vote = -1 ..) in PostgreSQL
Tally(ledger, facility_id) ==
    [likes |-> Cardinality({k \in DOMAIN ledger : k[1] = facility_id /\ ledger[k] = "Like"}),
     dislikes |-> Cardinality({k \in DOMAIN ledger : k[1] = facility_id /\ ledger[k] = "Dislike"})]

\* get_facility_vote_summaries for one id: ids without votes have no entry
\* and the caller substitutes the default
get_facility_vote_summary(facility_id) == Tally(votes, facility_id)

\* FacilityVoteSummary::score
vote_score(summary) == summary.likes - summary.dislikes

\* upsert_facility_vote is called and its write is applied
UpsertWrite(u, facility_id, voter_key, vote) ==
    /\ upserts[u].pc = "idle"
    /\ upsert_count < MaxUpserts
    /\ upsert_count' = upsert_count + 1
    /\ votes' = LedgerInsert(votes, <<facility_id, voter_key>>, vote)
    /\ ever_voted' = ever_voted \cup {<<facility_id, voter_key>>}
    /\ upserts' = [upserts EXCEPT ![u] = [pc |-> "summary", facility_id |-> facility_id,
                                          voter_key |-> voter_key, vote |-> vote]]
    /\ UNCHANGED last_summary
    /\ UNCHANGED notVotes

\* the PostgreSQL INSERT fails: the call returns the error, nothing is written
UpsertWriteFail(u) ==
    /\ upserts[u].pc = "idle"
    /\ repo_kind = "postgres"
    /\ upsert_count < MaxUpserts
    /\ upsert_count' = upsert_count + 1
    /\ last_summary' = None
    /\ UNCHANGED <<votes, upserts, ever_voted>>
    /\ UNCHANGED notVotes

\* faulty variant: the tallies leave out the vote of the caller
UpsertSummary_withoutOwn(u) ==
    /\ upserts[u].pc = "summary"
    /\ last_summary' = Some([call |-> upserts[u],
                             summary |-> Tally([k \in DOMAIN votes \ {<<upserts[u].facility_id,
                                                                       upserts[u].voter_key>>}
                                                   |-> votes[k]],
                                               upserts[u].facility_id)])
    /\ upserts' = [upserts EXCEPT ![u] = IdleUpsert]
    /\ UNCHANGED <<votes, upsert_count, ever_voted>>
    /\ UNCHANGED notVotes

\* the tallies are read and returned
UpsertSummary(u) ==
    /\ upserts[u].pc = "summary"
    /\ last_summary' = Some([call |-> upserts[u],
                             summary |-> get_facility_vote_summary(upserts[u].facility_id)])
    /\ upserts' = [upserts EXCEPT ![u] = IdleUpsert]
    /\ UNCHANGED <<votes, upsert_count, ever_voted>>
    /\ UNCHANGED notVotes

\* the PostgreSQL SELECT fails: the call returns the error, the vote stays
UpsertSummaryFail(u) ==
    /\ upserts[u].pc = "summary"
    /\ repo_kind = "postgres"
    /\ last_summary' = None
    /\ upserts' = [upserts EXCEPT ![u] = IdleUpsert]
    /\ UNCHANGED <<votes, upsert_count, ever_voted>>
    /\ UNCHANGED notVotes

NextVotes ==
    \E u \in UpsertCalls :
        \/ \E f \in FacilityIds, v \in VoterKeys, x \in VoteValues : UpsertWrite(u, f, v, x)
        \/ UpsertWriteFail(u)
        \/ UpsertSummary(u)
        \/ UpsertSummaryFail(u)

(***************************************************************************)
(* RateLimiter.  Instants are ticks of the monotonic clock; allow() runs   *)
(* under the mutex, in one step.                                           *)
(***************************************************************************)
MaxRequests == 2
MaxWindow == 2
MaxClock == 3

LimiterKeys == {"v1:lac::1", "v2:lac::1"}

\* faulty variant: nothing ever expires
Drain_never(queue, t, w) == queue

\* the while loop: pop the front while now.duration_since(front) > window
RECURSIVE Drain(_, _, _)
Drain(queue, t, w) ==
    IF queue # <<>> /\ ~(t - Head(queue) <= w)
    THEN Drain(Tail(queue), t, w)
    ELSE queue

\* guard.entry(key).or_default()
EntryOrDefault(map, key) == IF key \in DOMAIN map THEN map[key] ELSE <<>>

\* faulty variant: the insert leaves only the entry of the key
MapInsert_alone(map, key, value) == key :> value

MapInsert(map, key, value) ==
    IF key \in DOMAIN map THEN [map EXCEPT ![key] = value] ELSE (key :> value) @@ map

\* faulty variant: a rejected call is recorded as well
allow_recordsRejected(map, key, t) ==
    LET queue == Drain(EntryOrDefault(map, key), t, window)
    IN  IF queue = <<>>
        THEN [result |-> TRUE, map |-> MapInsert(map, key, <<t>>)]
        ELSE IF Len(queue) >= max_requests
        THEN [result |-> FALSE, map |-> MapInsert(map, key, Append(queue, t))]
        ELSE [result |-> TRUE, map |-> MapInsert(map, key, Append(queue, t))]

\* RateLimiter::allow: the return value and the map it leaves
allow(map, key, t) ==
    LET queue == Drain(EntryOrDefault(map, key), t, window)
    IN  IF queue = <<>>
        THEN [result |-> TRUE, map |-> MapInsert(map, key, <<t>>)]
        ELSE IF Len(queue) >= max_requests
        THEN [result |-> FALSE, map |-> MapInsert(map, key, queue)]
        ELSE [result |-> TRUE, map |-> MapInsert(map, key, Append(queue, t))]

Allow(key) ==
    /\ LET r == allow(limiter, key, now)
           before == EntryOrDefault(limiter, key)
       IN  /\ limiter' = r.map
           /\ last_allow' = Some([key |-> key, result |-> r.result,
                                  expired |-> Len(before) - Len(Drain(before, now, window))])
    /\ UNCHANGED <<max_requests, window, now>>
    /\ UNCHANGED notLimiter

\* the monotonic clock advances
Tick(bound) ==
    /\ now < bound
    /\ now' = now + 1
    /\ UNCHANGED <<limiter, max_requests, window, last_allow>>
    /\ UNCHANGED notLimiter

InitLimiter ==
    /\ limiter = <<>>
    /\ now = 0
    /\ last_allow = None

NextLimiter ==
    \/ \E key \in LimiterKeys : Allow(key)
    \/ Tick(MaxClock)

\* the scenario of one key with max_requests = 5 and window = 60 s, in ticks
\* of 10 s
ScenarioMaxRequests == 5
ScenarioWindow == 6
ScenarioClock == 8
ScenarioKey == "v1:lac::1"

NextScenario ==
    \/ Allow(ScenarioKey)
    \/ Tick(ScenarioClock)

(***************************************************************************)
(* The read side: search and top picks.  A query is a FacilitySearchQuery, *)
(* its Option fields as above.  Coordinates are points of one meridian in  *)
(* tenths of a mile, where the great-circle distance of haversine_miles is *)
(* the difference of the latitudes; instants are half days.                *)
(***************************************************************************)
ELITE_THRESHOLD == 90
SOLID_THRESHOLD == 80

\* usize::MAX and i64::MAX, scaled to 31 and 30 bits
USIZE_MAX == 2147483647
I64_MAX == 1073741823

Min(a, b) == IF a <= b THEN a ELSE b

\* usize::clamp
clamp(v, lo, hi) == IF v < lo THEN lo ELSE IF v > hi THEN hi ELSE v

\* usize::saturating_mul
saturating_mul(a, b) ==
    IF a = 0 \/ b = 0 THEN 0
    ELSE IF a > USIZE_MAX \div b THEN USIZE_MAX
    ELSE a * b

\* Option::or, Option::unwrap_or
or(a, b) == IF a # None THEN a ELSE b
unwrap_or(o, default) == IF o # None THEN Unwrap(o) ELSE default

\* haversine_miles for two points of one meridian
haversine_miles(lat1, lon1, lat2, lon2) ==
    IF lat2 >= lat1 THEN lat2 - lat1 ELSE lat1 - lat2

\* latest_inspection_at: the maximum inspected_at, None without inspections
latest_inspection_at(facility) ==
    IF facility.inspections = <<>> THEN None
    ELSE Some(CHOOSE t \in {facility.inspections[i].inspected_at :
                               i \in 1..Len(facility.inspections)} :
                 \A i \in 1..Len(facility.inspections) :
                    facility.inspections[i].inspected_at <= t)

\* Ord for Option<DateTime>: None is less than every Some
OptionLess(a, b) ==
    IF b = None THEN FALSE ELSE IF a = None THEN TRUE ELSE Unwrap(a) < Unwrap(b)

\* the comparators of the sort modes
RecentDesc(left, right) ==
    \/ OptionLess(latest_inspection_at(right), latest_inspection_at(left))
    \/ /\ latest_inspection_at(right) = latest_inspection_at(left)
       /\ right.trust_score < left.trust_score

NameAsc(left, right) == StrLess(left.name, right.name)

TrustDescUpdatedDesc(left, right) ==
    \/ right.trust_score < left.trust_score
    \/ /\ right.trust_score = left.trust_score
       /\ right.updated_at < left.updated_at

TrustDesc(left, right) == right.trust_score < left.trust_score

\* faulty variant: the score is compared before the likes
TopPicksOrder_scoreFirst(left, right) ==
    \/ vote_score(right.votes) < vote_score(left.votes)
    \/ /\ vote_score(right.votes) = vote_score(left.votes)
       /\ \/ right.votes.likes < left.votes.likes
          \/ /\ right.votes.likes = left.votes.likes
             /\ \/ right.facility.trust_score < left.facility.trust_score
                \/ /\ right.facility.trust_score = left.facility.trust_score
                   /\ right.facility.updated_at < left.facility.updated_at

\* the order of top picks over (facility, votes) pairs: likes, then score,
\* then trust_score, then updated_at, each descending
TopPicksOrder(left, right) ==
    \/ right.votes.likes < left.votes.likes
    \/ /\ right.votes.likes = left.votes.likes
       /\ \/ vote_score(right.votes) < vote_score(left.votes)
          \/ /\ vote_score(right.votes) = vote_score(left.votes)
             /\ TrustDescUpdatedDesc(left.facility, right.facility)

\* compare(left, right) = Less under the ordering named by mode
Before(mode, left, right) ==
    CASE mode = "recent_desc" -> RecentDesc(left, right)
      [] mode = "name_asc" -> NameAsc(left, right)
      [] mode = "trust_desc_updated_desc" -> TrustDescUpdatedDesc(left, right)
      [] mode = "trust_desc" -> TrustDesc(left, right)
      [] mode = "top_picks" -> TopPicksOrder(left, right)

\* the place of x in a sorted Vec: behind every row that does not come after it
RECURSIVE InsertSorted(_, _, _)
InsertSorted(sorted, x, mode) ==
    IF sorted = <<>> THEN <<x>>
    ELSE IF Before(mode, x, Head(sorted)) THEN <<x>> \o sorted
    ELSE <<Head(sorted)>> \o InsertSorted(Tail(sorted), x, mode)

\* slice::sort_by, a stable sort
RECURSIVE sort_by(_, _)
sort_by(rows, mode) ==
    IF rows = <<>> THEN <<>>
    ELSE InsertSorted(sort_by(SubSeq(rows, 1, Len(rows) - 1), mode),
                      rows[Len(rows)], mode)

\* faulty variant: the watch band reaches up to the elite threshold
ScoreSliceCounts_overlap(rows) ==
    [all |-> Len(rows),
     elite |-> Len(SelectSeq(rows, LAMBDA f : f.trust_score >= ELITE_THRESHOLD)),
     solid |-> Len(SelectSeq(rows, LAMBDA f : f.trust_score >= SOLID_THRESHOLD
                                           /\ f.trust_score < ELITE_THRESHOLD)),
     watch |-> Len(SelectSeq(rows, LAMBDA f : f.trust_score < ELITE_THRESHOLD))]

\* ScoreSliceCounts of a candidate Vec
ScoreSliceCounts(rows) ==
    [all |-> Len(rows),
     elite |-> Len(SelectSeq(rows, LAMBDA f : f.trust_score >= ELITE_THRESHOLD)),
     solid |-> Len(SelectSeq(rows, LAMBDA f : f.trust_score >= SOLID_THRESHOLD
                                           /\ f.trust_score < ELITE_THRESHOLD)),
     watch |-> Len(SelectSeq(rows, LAMBDA f : f.trust_score < SOLID_THRESHOLD))]

\* faulty variant: score_slice selects nothing
ScoreSliceFilter_off(rows, score_slice) == rows

\* the match on score_slice
ScoreSliceFilter(rows, score_slice) ==
    IF score_slice = None THEN rows
    ELSE LET slice == to_ascii_lowercase(trim(Unwrap(score_slice)))
         IN  CASE slice = <<"e","l","i","t","e">> ->
                      SelectSeq(rows, LAMBDA f : f.trust_score >= ELITE_THRESHOLD)
               [] slice = <<"s","o","l","i","d">> ->
                      SelectSeq(rows, LAMBDA f : f.trust_score >= SOLID_THRESHOLD
                                              /\ f.trust_score < ELITE_THRESHOLD)
               [] slice = <<"w","a","t","c","h">> ->
                      SelectSeq(rows, LAMBDA f : f.trust_score < SOLID_THRESHOLD)
               [] OTHER -> rows

\* the literals the queries are matched against
ALL == <<"a","l","l">>
RECENT_DESC == <<"r","e","c","e","n","t","_","d","e","s","c">>
NAME_ASC == <<"n","a","m","e","_","a","s","c">>

\* q is present and not blank
has_search_term(query) == query.q # None /\ trim(Unwrap(query.q)) # <<>>

\* the sort key of the query
SortMode(query) ==
    IF query.sort = None THEN <<>> ELSE to_ascii_lowercase(trim(Unwrap(query.sort)))

\* faulty variant: the page is not cut to page_size
SkipTake_noTake(rows, offset, page_size) ==
    IF offset >= Len(rows) THEN <<>> ELSE SubSeq(rows, offset + 1, Len(rows))

\* faulty variant: the page starts one row early
SkipTake_oneEarly(rows, offset, page_size) ==
    IF offset >= Len(rows) THEN <<>>
    ELSE SubSeq(rows, Max(offset, 1), Min(Len(rows), offset + page_size))

\* iter.skip(offset).take(page_size)
SkipTake(rows, offset, page_size) ==
    IF offset >= Len(rows) THEN <<>>
    ELSE SubSeq(rows, offset + 1, Min(Len(rows), offset + page_size))

\* the 90 days of the recent-only filter
RECENT_DAYS == 90

\* the default and the limits of page_size
DEFAULT_PAGE_SIZE == 50
MAX_PAGE_SIZE == 200

\* format!("{} {} {} {}", name, address, city, postal_code)
SearchText(facility) ==
    facility.name \o <<" ">> \o facility.address \o <<" ">> \o
    facility.city \o <<" ">> \o facility.postal_code

\* the geo triple of the query, when all three are given
HasGeoRadius(query) ==
    query.latitude # None /\ query.longitude # None /\ query.radius_miles # None

DistanceTo(query, facility) ==
    haversine_miles(Unwrap(query.latitude), Unwrap(query.longitude),
                    facility.latitude, facility.longitude)

\* query.jurisdiction, trimmed and lowercased, when it selects anything
JurisdictionTerm(query) ==
    IF query.jurisdiction = None THEN None
    ELSE LET jurisdiction == to_ascii_lowercase(trim(Unwrap(query.jurisdiction)))
         IN  IF jurisdiction # <<>> /\ jurisdiction # ALL
             THEN Some(jurisdiction) ELSE None

\* the result of a search: Ok with the page, or the error of the repository
SearchOk(rows, total_count, slice_counts, page, page_size) ==
    [ok |-> TRUE, data |-> rows, count |-> Len(rows), total_count |-> total_count,
     slice_counts |-> slice_counts, page |-> page, page_size |-> page_size]

SearchErr == [ok |-> FALSE]

(***************************************************************************)
(* DirectoryService::search: list(), the filters, the counts, the slice,   *)
(* the sort, the page, and the vote summaries of the page.                 *)
(***************************************************************************)
ServiceTextFilter(rows, query) ==
    IF query.q = None THEN rows
    ELSE LET term == normalize_for_search(Unwrap(query.q))
             search_tokens == split_whitespace(term)
         IN  IF term = <<>> THEN rows
             ELSE SelectSeq(rows, LAMBDA facility :
                     LET candidate_tokens ==
                             split_whitespace(normalize_for_search(SearchText(facility)))
                     IN  \A i \in 1..Len(search_tokens) :
                            \E k \in 1..Len(candidate_tokens) :
                               tokens_match(candidate_tokens[k], search_tokens[i]))

ServiceJurisdictionFilter(rows, query) ==
    IF JurisdictionTerm(query) = None THEN rows
    ELSE SelectSeq(rows, LAMBDA facility :
            eq_ignore_ascii_case(label(facility.jurisdiction),
                                 Unwrap(JurisdictionTerm(query))))

\* radius_miles.max(0.1): a tenth of a mile is the unit
\* faulty variant: the radius is applied in text mode too
ServiceGeoFilter_always(rows, query) ==
    IF HasGeoRadius(query)
    THEN SelectSeq(rows, LAMBDA facility :
            DistanceTo(query, facility) <= Max(Unwrap(query.radius_miles), 1))
    ELSE rows

ServiceGeoFilter(rows, query) ==
    IF ~has_search_term(query) /\ HasGeoRadius(query)
    THEN SelectSeq(rows, LAMBDA facility :
            DistanceTo(query, facility) <= Max(Unwrap(query.radius_miles), 1))
    ELSE rows

\* instants are counted in half days
HalfDaysPerDay == 2

\* Duration::days
days(n) == n * HalfDaysPerDay

\* Duration::num_days: the whole days of a duration, truncated toward zero
num_days(duration) ==
    IF duration >= 0 THEN duration \div HalfDaysPerDay ELSE -((-duration) \div HalfDaysPerDay)

\* now.signed_duration_since(inspected_at).num_days() <= 90
RecentFilter(rows, query, utc_now) ==
    IF unwrap_or(query.recent_only, FALSE)
    THEN SelectSeq(rows, LAMBDA facility :
            /\ latest_inspection_at(facility) # None
            /\ num_days(utc_now - Unwrap(latest_inspection_at(facility))) <= RECENT_DAYS)
    ELSE rows

\* latest >= Utc::now() - Duration::days(90)
MemRecentFilter(rows, query, utc_now) ==
    IF unwrap_or(query.recent_only, FALSE)
    THEN SelectSeq(rows, LAMBDA f :
            /\ latest_inspection_at(f) # None
            /\ Unwrap(latest_inspection_at(f)) >= utc_now - days(RECENT_DAYS))
    ELSE rows

\* MAX(inspected_at of the inspections) >= NOW() - INTERVAL '90 days'; the
\* maximum of no inspection is NULL and the row is dropped
PgRecentFilter(rows, query, utc_now) ==
    IF unwrap_or(query.recent_only, FALSE)
    THEN SelectSeq(rows, LAMBDA f :
            /\ latest_inspection_at(f) # None
            /\ Unwrap(latest_inspection_at(f)) >= utc_now - days(RECENT_DAYS))
    ELSE rows

ServiceSort(rows, query) ==
    IF SortMode(query) = RECENT_DESC THEN sort_by(rows, "recent_desc")
    ELSE IF SortMode(query) = NAME_ASC THEN sort_by(rows, "name_asc")
    ELSE sort_by(rows, "trust_desc_updated_desc")

to_summary(facility, vote_summary) ==
    [id |-> facility.id, name |-> facility.name,
     jurisdiction |-> label(facility.jurisdiction),
     trust_score |-> facility.trust_score,
     latest_inspection_at |-> latest_inspection_at(facility),
     likes |-> vote_summary.likes, dislikes |-> vote_summary.dislikes,
     vote_score |-> vote_score(vote_summary)]

\* faulty variant: the facet counts are taken after the score_slice filter
ServiceSearch_countsAfterSlice(rows, ledger, query, utc_now) ==
    LET candidates == RecentFilter(ServiceGeoFilter(ServiceJurisdictionFilter(
                          ServiceTextFilter(rows, query), query), query), query, utc_now)
        sorted == ServiceSort(ScoreSliceFilter(candidates, query.score_slice), query)
        slice_counts == ScoreSliceCounts(sorted)
        page_size == clamp(unwrap_or(or(query.page_size, query.limit), DEFAULT_PAGE_SIZE),
                           1, MAX_PAGE_SIZE)
        page == Max(unwrap_or(query.page, 1), 1)
        offset == saturating_mul(page - 1, page_size)
        page_facilities == SkipTake(sorted, offset, page_size)
    IN  SearchOk([i \in 1..Len(page_facilities) |->
                     to_summary(page_facilities[i], Tally(ledger, page_facilities[i].id))],
                 Len(sorted), slice_counts, page, page_size)

ServiceSearch(rows, ledger, query, utc_now) ==
    LET candidates == RecentFilter(ServiceGeoFilter(ServiceJurisdictionFilter(
                          ServiceTextFilter(rows, query), query), query), query, utc_now)
        slice_counts == ScoreSliceCounts(candidates)
        sorted == ServiceSort(ScoreSliceFilter(candidates, query.score_slice), query)
        page_size == clamp(unwrap_or(or(query.page_size, query.limit), DEFAULT_PAGE_SIZE),
                           1, MAX_PAGE_SIZE)
        page == Max(unwrap_or(query.page, 1), 1)
        offset == saturating_mul(page - 1, page_size)
        page_facilities == SkipTake(sorted, offset, page_size)
    IN  SearchOk([i \in 1..Len(page_facilities) |->
                     to_summary(page_facilities[i], Tally(ledger, page_facilities[i].id))],
                 Len(sorted), slice_counts, page, page_size)

(***************************************************************************)
(* InMemoryFacilityRepository::search_facilities                           *)
(***************************************************************************)
MemTextFilter(rows, query) ==
    IF query.q = None THEN rows
    ELSE LET term == to_ascii_lowercase(trim(Unwrap(query.q)))
         IN  IF term = <<>> THEN rows
             ELSE SelectSeq(rows, LAMBDA f :
                     \/ contains(to_ascii_lowercase(f.name), term)
                     \/ contains(to_ascii_lowercase(f.address), term)
                     \/ contains(to_ascii_lowercase(f.city), term)
                     \/ contains(f.postal_code, term))

MemJurisdictionFilter(rows, query) ==
    IF JurisdictionTerm(query) = None THEN rows
    ELSE SelectSeq(rows, LAMBDA f :
            \/ code(f.jurisdiction) = Unwrap(JurisdictionTerm(query))
            \/ eq_ignore_ascii_case(label(f.jurisdiction), Unwrap(JurisdictionTerm(query))))

MemGeoFilter(rows, query) ==
    IF ~has_search_term(query) /\ HasGeoRadius(query)
    THEN SelectSeq(rows, LAMBDA f : DistanceTo(query, f) <= Unwrap(query.radius_miles))
    ELSE rows

MemSort(rows, query) ==
    IF SortMode(query) = RECENT_DESC THEN sort_by(rows, "recent_desc")
    ELSE IF SortMode(query) = NAME_ASC THEN sort_by(rows, "name_asc")
    ELSE sort_by(rows, "trust_desc")

MemSearch(rows, query, utc_now) ==
    LET candidates == MemRecentFilter(MemGeoFilter(MemJurisdictionFilter(
                          MemTextFilter(rows, query), query), query), query, utc_now)
        slice_counts == ScoreSliceCounts(candidates)
        sorted == MemSort(ScoreSliceFilter(candidates, query.score_slice), query)
        page_size == clamp(unwrap_or(or(query.page_size, query.limit), DEFAULT_PAGE_SIZE),
                           1, MAX_PAGE_SIZE)
        page == Max(unwrap_or(query.page, 1), 1)
        offset == saturating_mul(page - 1, page_size)
    IN  SearchOk(SkipTake(sorted, offset, page_size), Len(sorted), slice_counts,
                 page, page_size)

(***************************************************************************)
(* PostgresFacilityRepository::search_facilities: the statement with the   *)
(* CTEs scored, counts, sliced, sliced_total and page.  The full-text      *)
(* match and its rank are PostgreSQL's; here a row matches when every word *)
(* of the term is a word of its name, address, city or postal code, and    *)
(* ranks by the number of the term's words in its name.                    *)
(***************************************************************************)
FTS_RANK_WEIGHT == 10
GEO_PROXIMITY_MAX_BONUS == 5
\* GEO_PROXIMITY_DECAY_METERS, 10000 m, in tenths of a mile
GEO_PROXIMITY_DECAY == 62

Words(text) == split_whitespace(to_ascii_lowercase(text))

PgTextMatch(f, term) ==
    \A i \in 1..Len(Words(term)) :
       \E k \in 1..Len(Words(SearchText(f))) : Words(SearchText(f))[k] = Words(term)[i]

PgTextRank(f, term) ==
    Cardinality({i \in 1..Len(Words(term)) :
                    \E k \in 1..Len(Words(f.name)) : Words(f.name)[k] = Words(term)[i]})

\* the WHERE clause of scored: text match, or the radius in browse mode
PgScored(rows, query) ==
    IF has_search_term(query)
    THEN SelectSeq(rows, LAMBDA f : PgTextMatch(f, trim(Unwrap(query.q))))
    ELSE IF HasGeoRadius(query)
    THEN SelectSeq(rows, LAMBDA f :
            DistanceTo(query, f) <= Max(Unwrap(query.radius_miles), 1))
    ELSE rows

\* AND LOWER(f.jurisdiction) = code: the column holds Jurisdiction::code
PgJurisdictionFilter(rows, query) ==
    IF JurisdictionTerm(query) = None THEN rows
    ELSE LET jurisdiction == Unwrap(JurisdictionTerm(query))
             resolved == or(from_code(jurisdiction), from_label(jurisdiction))
             wanted == IF resolved # None THEN code(Unwrap(resolved)) ELSE jurisdiction
         IN  SelectSeq(rows, LAMBDA f : to_ascii_lowercase(code(f.jurisdiction)) = wanted)

\* the composite score of the default order in text mode, times
\* GEO_PROXIMITY_DECAY
PgComposite(f, query) ==
    PgTextRank(f, trim(Unwrap(query.q))) * FTS_RANK_WEIGHT * GEO_PROXIMITY_DECAY +
    (IF query.latitude # None /\ query.longitude # None
     THEN Max(0, GEO_PROXIMITY_MAX_BONUS * GEO_PROXIMITY_DECAY - DistanceTo(query, f))
     ELSE 0)

\* ORDER BY composite DESC, trust_score DESC: a row's place is the number of
\* rows before it
RECURSIVE PgOrderByComposite(_, _)
PgOrderByComposite(rows, query) ==
    IF rows = <<>> THEN <<>>
    ELSE LET first == CHOOSE i \in 1..Len(rows) :
                         \A k \in 1..Len(rows) :
                            \/ PgComposite(rows[i], query) > PgComposite(rows[k], query)
                            \/ /\ PgComposite(rows[i], query) = PgComposite(rows[k], query)
                               /\ \/ rows[i].trust_score > rows[k].trust_score
                                  \/ /\ rows[i].trust_score = rows[k].trust_score
                                     /\ i <= k
         IN  <<rows[first]>> \o
             PgOrderByComposite(SubSeq(rows, 1, first - 1) \o
                                SubSeq(rows, first + 1, Len(rows)), query)

PgSort(rows, query) ==
    IF SortMode(query) = RECENT_DESC THEN sort_by(rows, "recent_desc")
    ELSE IF SortMode(query) = NAME_ASC THEN sort_by(rows, "name_asc")
    ELSE IF has_search_term(query) THEN PgOrderByComposite(rows, query)
    ELSE sort_by(rows, "trust_desc_updated_desc")

\* OFFSET takes `offset as i64`: above i64::MAX the cast is negative and the
\* statement fails
PgSearch(rows, query, utc_now) ==
    LET page_size == clamp(unwrap_or(query.page_size, DEFAULT_PAGE_SIZE), 1, MAX_PAGE_SIZE)
        page == Max(unwrap_or(query.page, 1), 1)
        offset == saturating_mul(page - 1, page_size)
        scored == PgRecentFilter(PgJurisdictionFilter(PgScored(rows, query), query),
                                 query, utc_now)
        sliced == ScoreSliceFilter(scored, query.score_slice)
    IN  IF offset > I64_MAX THEN SearchErr
        ELSE SearchOk(SkipTake(PgSort(sliced, query), offset, page_size),
                      Len(sliced), ScoreSliceCounts(scored), page, page_size)

(***************************************************************************)
(* Snapshots and queries of the search requests.  SnapshotABCD is four     *)
(* facilities with trust 95, 85, 72 and 60, two of Los Angeles County and  *)
(* two of Orange County; the first lies 10 miles from the origin, the      *)
(* third a tenth of a mile, the others at it.                              *)
(***************************************************************************)
RecMastros ==
    [SourceRecord(<<"7">>, <<"M","a","s","t","r","o","'","s">>, "LosAngelesCounty", 10, Some(F32(950)), None, None)
        EXCEPT !.latitude = 100]
RecBar == SourceRecord(<<"8">>, <<"B","a","r">>, "LosAngelesCounty", 5, Some(F32(850)), None, None)
RecCafes ==
    [SourceRecord(<<"9">>, <<"C","a","f","e","s">>, "OrangeCounty", 2, Some(F32(729)), None, None)
        EXCEPT !.latitude = 1]

SnapshotABCD == <<normalize(RecMastros), normalize(RecBar), normalize(RecCafes), normalize(RecZoe)>>

SearchSnapshots == {SnapshotABCD, <<normalize(RecZoe), normalize(RecMastros)>>}

\* the ledger of the search requests: one like and one dislike
SearchLedger ==
    (<<normalize(RecMastros).id, "v1">> :> "Like") @@ (<<normalize(RecZoe).id, "v1">> :> "Dislike")

\* Utc::now() of the requests: 91 days, and 91 days and a half
UtcNows == {days(91), days(91) + 1}

QueryTexts == {None, Some(<<" "," ">>), Some(<<"m","a","s","t","r","o","s">>), Some(<<" ","Z","O","E">>)}

\* latitude, longitude, radius_miles: absent, 5 miles around the origin, and
\* a radius of 0
QueryGeos == {<<None, None, None>>, <<Some(0), Some(0), Some(50)>>, <<Some(0), Some(0), Some(0)>>}

QueryJurisdictions ==
    {None, Some(<<>>), Some(<<"A","l","l">>), Some(<<"o","c">>), Some(<<"O","R","A","N","G","E"," ","C","o","u","n","t","y">>)}

QuerySlices == {None, Some(<<"e","l","i","t","e">>), Some(<<"s","o","l","i","d">>), Some(<<"w","a","t","c","h">>)}

QuerySorts == {None, Some(RECENT_DESC), Some(NAME_ASC)}

\* page, page_size, limit
QueryPages ==
    {<<None, None, None>>, <<Some(0), Some(0), None>>, <<Some(2), Some(1), None>>,
     <<Some(1), None, Some(2)>>, <<Some(1), Some(201), None>>,
     <<Some(USIZE_MAX), Some(3), None>>}

QueryOf(q, geo, jurisdiction, sort, score_slice, recent_only, paging) ==
    [q |-> q, latitude |-> geo[1], longitude |-> geo[2], radius_miles |-> geo[3],
     jurisdiction |-> jurisdiction, sort |-> sort, score_slice |-> score_slice,
     recent_only |-> recent_only, page |-> paging[1], page_size |-> paging[2],
     limit |-> paging[3]]

\* every combination of the filters, on the first pages and in the default order
FilterQueries ==
    {QueryOf(q, geo, jurisdiction, None, score_slice, recent_only, paging) :
        q \in QueryTexts, geo \in QueryGeos, jurisdiction \in QueryJurisdictions,
        score_slice \in QuerySlices, recent_only \in {None, Some(TRUE)},
        paging \in {<<None, None, None>>, <<Some(0), Some(0), None>>,
                    <<Some(2), Some(1), None>>}}

\* every combination of order and page
PageQueries ==
    {QueryOf(q, <<None, None, None>>, None, sort, score_slice, None, paging) :
        q \in {None, Some(<<" ","Z","O","E">>)}, sort \in QuerySorts,
        score_slice \in QuerySlices, paging \in QueryPages}

Queries == FilterQueries \cup PageQueries

\* the implementation a request runs: the directory service over list(), or
\* search_facilities of the configured repository
RunSearch(via, query, utc_now) ==
    IF via = "service" THEN ServiceSearch(list, votes, query, utc_now)
    ELSE IF repo_kind = "memory" THEN MemSearch(facilities, query, utc_now)
    ELSE PgSearch(facilities, query, utc_now)

\* GET /facilities: a search is answered
Search(via, query, utc_now) ==
    /\ search = None
    /\ search' = Some([via |-> via, query |-> query, utc_now |-> utc_now,
                       result |-> RunSearch(via, query, utc_now)])
    /\ UNCHANGED picks
    /\ UNCHANGED notReads

\* the response is sent
SearchReturn ==
    /\ search # None
    /\ search' = None
    /\ UNCHANGED picks
    /\ UNCHANGED notReads

NextSearch ==
    \/ \E via \in {"service", "repository"} :
          search = None /\ \E query \in Queries, utc_now \in UtcNows :
                               Search(via, query, utc_now)
    \/ SearchReturn

(***************************************************************************)
(* Top picks.  DirectoryService::top_picks reads list() and then the vote  *)
(* summaries, two awaits; top_picks of the in-memory repository runs under *)
(* both read locks and that of PostgreSQL is one statement.                *)
(***************************************************************************)
MAX_TOP_PICKS == 50

\* the (facility, votes) pairs of a snapshot under a ledger
Ranked(rows, ledger) ==
    [i \in 1..Len(rows) |-> [facility |-> rows[i], votes |-> Tally(ledger, rows[i].id)]]

\* faulty variant: only a positive score makes a pick
TopPicksEligible_netPositive(entry) == vote_score(entry.votes) > 0

\* ranked.retain(|(_, votes)| votes.likes > 0)
TopPicksEligible(entry) == entry.votes.likes > 0

\* retain, sort_by and take(capped) of the service and the in-memory repository
RankTopPicks(rows, ledger, limit) ==
    LET capped == clamp(limit, 1, MAX_TOP_PICKS)
        ranked == sort_by(SelectSeq(Ranked(rows, ledger), TopPicksEligible), "top_picks")
    IN  SubSeq(ranked, 1, Min(capped, Len(ranked)))

\* the PostgreSQL statement: the joined rows with likes > 0, in the order of
\* ORDER BY, cut by LIMIT.  Rows that tie on every key come in either order
\* of the scan.
PgTopPicks(rows, ledger, limit) ==
    LET capped == clamp(limit, 1, MAX_TOP_PICKS)
        eligible == SelectSeq(Ranked(rows, ledger), TopPicksEligible)
    IN  {SubSeq(ranked, 1, Min(capped, Len(ranked))) :
            ranked \in {sort_by(eligible, "top_picks"),
                        sort_by(Reverse(eligible), "top_picks")}}

\* a top-picks call in progress or answered
PicksCall(via, limit, pc, listed, ok, data) ==
    Some([via |-> via, limit |-> limit, pc |-> pc, facilities |-> listed,
          ok |-> ok, data |-> data])

\* DirectoryService::top_picks up to the first await: list()
TopPicksList(limit) ==
    /\ picks = None
    /\ picks' = IF list = <<>>
                THEN PicksCall("service", limit, "done", <<>>, TRUE, <<>>)
                ELSE PicksCall("service", limit, "summaries", list, TRUE, <<>>)
    /\ UNCHANGED search
    /\ UNCHANGED notReads

\* get_facility_vote_summaries returns; retain, sort, take, to_summary
TopPicksRank ==
    /\ picks # None
    /\ Unwrap(picks).pc = "summaries"
    /\ LET call == Unwrap(picks)
           ranked == RankTopPicks(call.facilities, votes, call.limit)
       IN  picks' = PicksCall("service", call.limit, "done", call.facilities, TRUE,
                              [i \in 1..Len(ranked) |->
                                  to_summary(ranked[i].facility, ranked[i].votes)])
    /\ UNCHANGED search
    /\ UNCHANGED notReads

\* the PostgreSQL query of the vote summaries fails: the call returns the error
TopPicksSummariesFail ==
    /\ picks # None
    /\ Unwrap(picks).pc = "summaries"
    /\ repo_kind = "postgres"
    /\ picks' = PicksCall("service", Unwrap(picks).limit, "done", Unwrap(picks).facilities,
                          FALSE, <<>>)
    /\ UNCHANGED search
    /\ UNCHANGED notReads

\* FacilityRepository::top_picks of the configured repository
TopPicksRepository(limit) ==
    /\ picks = None
    /\ \E ranked \in IF repo_kind = "memory"
                     THEN {RankTopPicks(facilities, votes, limit)}
                     ELSE PgTopPicks(facilities, votes, limit) :
          picks' = PicksCall("repository", limit, "done", facilities, TRUE,
                             [i \in 1..Len(ranked) |->
                                 to_summary(ranked[i].facility, ranked[i].votes)])
    /\ UNCHANGED search
    /\ UNCHANGED notReads

\* the response is sent
TopPicksReturn ==
    /\ picks # None
    /\ Unwrap(picks).pc = "done"
    /\ picks' = None
    /\ UNCHANGED search
    /\ UNCHANGED notReads

\* the limits of the calls: 0, 1, the default of the endpoint, and one above
\* the cap
PickLimits == {0, 1, 10, MAX_TOP_PICKS + 1}

NextPicks ==
    \/ \E limit \in PickLimits : TopPicksList(limit)
    \/ TopPicksRank
    \/ TopPicksSummariesFail
    \/ \E limit \in PickLimits : TopPicksRepository(limit)
    \/ TopPicksReturn
    \/ NextVotes

RecBarTwin ==
    SourceRecord(<<"1","0">>, <<"B","a","r">>, "LosAngelesCounty", 5, Some(F32(850)), None, None)

\* five facilities normalised at three instants: trust 85, 91, 85, 60 and 72
RankSnapshot ==
    <<[normalize(RecBar) EXCEPT !.updated_at = 1], normalize(RecJoeOld),
      [normalize(RecBarTwin) EXCEPT !.updated_at = 2], normalize(RecZoe),
      normalize(RecCafes)>>

\* snapshots of two facilities, the second without the first facility of the
\* votes, and RankSnapshot
PickSnapshots ==
    {<<normalize(RecJoeOld), normalize(RecZoe)>>, <<normalize(RecZoe), normalize(RecBar)>>,
     RankSnapshot}

\* ledgers left by earlier votes: none, one like and one dislike, likes on
\* both facilities, one dislike, and the ledger that makes every key of the
\* order decide in RankSnapshot
PickLedgers ==
    {<<>>,
     (<<normalize(RecJoeOld).id, "v1">> :> "Like") @@ (<<normalize(RecJoeOld).id, "v2">> :> "Dislike"),
     (<<normalize(RecJoeOld).id, "v1">> :> "Like") @@ (<<normalize(RecZoe).id, "v1">> :> "Like")
         @@ (<<normalize(RecZoe).id, "v2">> :> "Like"),
     <<normalize(RecZoe).id, "v1">> :> "Dislike",
     (<<normalize(RecBar).id, "v1">> :> "Like") @@ (<<normalize(RecBarTwin).id, "v1">> :> "Like")
         @@ (<<normalize(RecJoeOld).id, "v1">> :> "Like")
         @@ (<<normalize(RecJoeOld).id, "v2">> :> "Like")
         @@ (<<normalize(RecJoeOld).id, "v3">> :> "Dislike")
         @@ (<<normalize(RecJoeOld).id, "v4">> :> "Dislike")
         @@ (<<normalize(RecZoe).id, "v1">> :> "Like")
         @@ (<<normalize(RecCafes).id, "v1">> :> "Like")
         @@ (<<normalize(RecCafes).id, "v2">> :> "Dislike")}

\* one facility more than the cap, each liked once
ManyLiked ==
    [i \in 1..(MAX_TOP_PICKS + 1) |->
        normalize(SourceRecord(<<ToString(i)>>, <<"N">>, "LosAngelesCounty", 1,
                               Some(F32(900)), None, None))]

ManyLikedLedger == [k \in {<<ManyLiked[i].id, "v1">> : i \in DOMAIN ManyLiked} |-> "Like"]

(***************************************************************************)
(* Calls of TrustScoreService::score on every combination of signals       *)
(***************************************************************************)
\* raw scores: absent, NaN, negative, 0, 91.2, 99.9, 100 and above 100
RawScores == {None, Some(NaN), Some(F32(-5)), Some(F32(0)), Some(F32(912)),
              Some(F32(999)), Some(F32(1000)), Some(F32(1005))}

LetterGrades == {None, Some(<<"A">>), Some(<<"a">>), Some(<<"B">>), Some(<<"C">>),
                 Some(<<"D">>), Some(<<>>)}

PlacardStatuses == {None, Some(<<"g","r","e","e","n">>), Some(<<"P","A","S","S">>), Some(<<"Y","e","l","l","o","w">>),
                    Some(<<"c","o","n","d","i","t","i","o","n","a","l">>), Some(<<"r","e","d">>), Some(<<"C","l","o","s","e","d">>),
                    Some(<<"b","l","u","e">>)}

ScoreSignals ==
    [raw_score : RawScores, letter_grade : LetterGrades, placard_status : PlacardStatuses]

\* score(&signals) is called and returns
Score(signals) ==
    /\ last_score' = Some([signals |-> signals, result |-> score(signals)])
    /\ UNCHANGED <<notFront, vote_requests, vote_request_count>>

NextScore == \E signals \in ScoreSignals : Score(signals)

(***************************************************************************)
(* record_vote, the handler of POST /facilities/{id}/vote, one step per    *)
(* await: the vote value is parsed, the limiter is asked, the facility is  *)
(* looked up with DirectoryService::get (get_by_id, then the vote          *)
(* summaries), and VoteService::record_vote calls upsert_facility_vote     *)
(* (the write, then the summary).                                          *)
(***************************************************************************)
LIKE == <<"l","i","k","e">>
DISLIKE == <<"d","i","s","l","i","k","e">>

\* match payload.vote.trim().to_ascii_lowercase().as_str()
ParseVote(payload) ==
    LET value == to_ascii_lowercase(trim(payload))
    IN  IF value = LIKE THEN Some("Like")
        ELSE IF value = DISLIKE THEN Some("Dislike")
        ELSE None

\* format!("{voter_key}:{id}")
LimiterKey(voter_key, id) == <<voter_key, ":">> \o id

\* the handler returns with an HTTP status
Answer(h, status) ==
    vote_requests' = [vote_requests EXCEPT ![h].pc = "answered", ![h].status = status]

\* faulty variant: the facility is looked up before the limiter is asked
RecordVote_lookupFirst(h, id, voter_key, payload) ==
    /\ vote_requests[h].pc \in {"idle", "answered"}
    /\ vote_request_count < MaxVoteRequests
    /\ vote_request_count' = vote_request_count + 1
    /\ vote_requests' = [vote_requests EXCEPT ![h] =
          IF ParseVote(payload) = None
          THEN [IdleRequest EXCEPT !.pc = "answered", !.id = id, !.voter_key = voter_key,
                                   !.status = 400]
          ELSE IF get_by_id(id) = None
          THEN [IdleRequest EXCEPT !.pc = "answered", !.id = id, !.voter_key = voter_key,
                                   !.vote = Unwrap(ParseVote(payload)), !.status = 404]
          ELSE [IdleRequest EXCEPT !.pc = "allow", !.id = id, !.voter_key = voter_key,
                                   !.vote = Unwrap(ParseVote(payload))]]
    /\ UNCHANGED last_score
    /\ UNCHANGED notFront

\* a request arrives; an invalid vote value is answered 400 at once
RecordVote(h, id, voter_key, payload) ==
    /\ vote_requests[h].pc \in {"idle", "answered"}
    /\ vote_request_count < MaxVoteRequests
    /\ vote_request_count' = vote_request_count + 1
    /\ vote_requests' = [vote_requests EXCEPT ![h] =
          IF ParseVote(payload) = None
          THEN [IdleRequest EXCEPT !.pc = "answered", !.id = id, !.voter_key = voter_key,
                                   !.status = 400]
          ELSE [IdleRequest EXCEPT !.pc = "allow", !.id = id, !.voter_key = voter_key,
                                   !.vote = Unwrap(ParseVote(payload))]]
    /\ UNCHANGED last_score
    /\ UNCHANGED notFront

\* faulty variant: the limiter is asked but its answer is not looked at
RecordVoteAllow_ungated(h) ==
    /\ vote_requests[h].pc = "allow"
    /\ LET key == LimiterKey(vote_requests[h].voter_key, vote_requests[h].id)
           r == allow(limiter, key, now)
           before == EntryOrDefault(limiter, key)
       IN  /\ limiter' = r.map
           /\ last_allow' = Some([key |-> key, result |-> r.result,
                                  expired |-> Len(before) - Len(Drain(before, now, window))])
           /\ vote_requests' = [vote_requests EXCEPT
                 ![h].pc = "get_by_id",
                 ![h].allowed = r.result]
    /\ UNCHANGED <<max_requests, window, now, last_score, vote_request_count>>
    /\ UNCHANGED <<repo_kind, ingestVars, voteVars, readVars, scheduler, accepted>>

\* vote_rate_limiter.allow(&limiter_key): 429 when it returns false
RecordVoteAllow(h) ==
    /\ vote_requests[h].pc = "allow"
    /\ LET key == LimiterKey(vote_requests[h].voter_key, vote_requests[h].id)
           r == allow(limiter, key, now)
           before == EntryOrDefault(limiter, key)
       IN  /\ limiter' = r.map
           /\ last_allow' = Some([key |-> key, result |-> r.result,
                                  expired |-> Len(before) - Len(Drain(before, now, window))])
           /\ vote_requests' = [vote_requests EXCEPT
                 ![h].pc = IF r.result THEN "get_by_id" ELSE "answered",
                 ![h].status = IF r.result THEN 0 ELSE 429,
                 ![h].allowed = r.result]
    /\ UNCHANGED <<max_requests, window, now, last_score, vote_request_count>>
    /\ UNCHANGED <<repo_kind, ingestVars, voteVars, readVars, scheduler, accepted>>

\* directory_service.get: repository.get_by_id; 404 when there is no facility
RecordVoteGetById(h) ==
    /\ vote_requests[h].pc = "get_by_id"
    /\ IF get_by_id(vote_requests[h].id) = None
       THEN Answer(h, 404)
       ELSE vote_requests' = [vote_requests EXCEPT ![h].pc = "get_summaries"]
    /\ UNCHANGED <<last_score, vote_request_count>>
    /\ UNCHANGED notFront

\* directory_service.get: the vote summaries of the facility found
RecordVoteGetSummaries(h) ==
    /\ vote_requests[h].pc = "get_summaries"
    /\ vote_requests' = [vote_requests EXCEPT ![h].pc = "upsert"]
    /\ UNCHANGED <<last_score, vote_request_count>>
    /\ UNCHANGED notFront

\* upsert_facility_vote: the write
RecordVoteUpsert(h) ==
    /\ vote_requests[h].pc = "upsert"
    /\ votes' = LedgerInsert(votes, <<vote_requests[h].id, vote_requests[h].voter_key>>,
                             vote_requests[h].vote)
    /\ ever_voted' = ever_voted \cup {<<vote_requests[h].id, vote_requests[h].voter_key>>}
    /\ vote_requests' = [vote_requests EXCEPT ![h].pc = "summary"]
    /\ UNCHANGED <<upserts, upsert_count, last_summary, last_score, vote_request_count>>
    /\ UNCHANGED <<repo_kind, ingestVars, limiterVars, readVars, scheduler, accepted>>

\* upsert_facility_vote: the tallies are read; 200 with the summary
RecordVoteSummary(h) ==
    /\ vote_requests[h].pc = "summary"
    /\ vote_requests' = [vote_requests EXCEPT
          ![h].pc = "answered", ![h].status = 200,
          ![h].summary = Some(Tally(votes, vote_requests[h].id))]
    /\ UNCHANGED <<last_score, vote_request_count>>
    /\ UNCHANGED notFront

\* a PostgreSQL statement of the lookup or of the upsert fails: 500.  A
\* failed INSERT writes nothing; after a failed summary the vote stays.
RecordVoteRepositoryError(h) ==
    /\ repo_kind = "postgres"
    /\ vote_requests[h].pc \in {"get_by_id", "get_summaries", "upsert", "summary"}
    /\ Answer(h, 500)
    /\ UNCHANGED <<last_score, vote_request_count>>
    /\ UNCHANGED notFront

\* the facility ids of the requests: one that the refresh in progress drops,
\* one that it keeps, one that no snapshot holds
VoteRequestIds == {normalize(RecJoeNew).id, normalize(RecZoe).id, <<"x">>}

VotePayloads == {<<" ","L","i","k","e">>, DISLIKE, <<"u","p">>}

\* the steps of replace_all and set_system_ingestion_status of the refresh
\* in progress
ReplaceStep(p) ==
    \/ MemReplaceAll(p)
    \/ PgBegin(p)
    \/ PgTruncate(p)
    \/ PgInsertChunk(p)
    \/ PgCommit(p)
    \/ PgReplaceFail(p)
    \/ SetStatus(p)
    \/ SetStatusFail(p)

NextEndpoint ==
    \/ \E h \in Handlers :
          \/ \E id \in VoteRequestIds, payload \in VotePayloads : RecordVote(h, id, "v1", payload)
          \/ RecordVoteAllow(h)
          \/ RecordVoteGetById(h)
          \/ RecordVoteGetSummaries(h)
          \/ RecordVoteUpsert(h)
          \/ RecordVoteSummary(h)
          \/ RecordVoteRepositoryError(h)
    \/ \E p \in Callers : ReplaceStep(p)

\* the first refresh installed Bo, Joe and Zoe; the second, whose first
\* connector returned nothing, has passed the gates and is about to replace
\* the snapshot by Bo and Zoe
FirstStatus ==
    [connector_stats |-> <<[source |-> Connectors[1], fetched_records |-> 2, error |-> None],
                           [source |-> Connectors[2], fetched_records |-> 2, error |-> None]>>,
     unique_facilities |-> 3]

FirstSnapshot == <<normalize(RecBo), normalize(RecJoeNew), normalize(RecZoe)>>

SecondRefresh ==
    [IdleCall EXCEPT
        !.pc = "replace_all",
        !.facilities = <<normalize(RecBo), normalize(RecZoe)>>,
        !.previous_status = Some(FirstStatus),
        !.stitched = StitchAll(<<>>, <<RecZoe, RecBo>>),
        !.connector_stats =
            <<[source |-> Connectors[1], fetched_records |-> 0, error |-> None],
              [source |-> Connectors[2], fetched_records |-> 2, error |-> None]>>,
        !.successful_connectors = 2,
        !.connector = 3,
        !.fetched = {RecZoe, RecBo},
        !.pre_facilities = FirstSnapshot,
        !.pre_status = Some(FirstStatus)]

MidRefresh ==
    /\ facilities = FirstSnapshot
    /\ ingestion_status = Some(FirstStatus)
    /\ refresh_lock = 1
    /\ refresh = [p \in Callers |-> IF p = 1 THEN SecondRefresh ELSE IdleCall]
    /\ started = 2
    /\ returned = "Ok"

(***************************************************************************)
(* trigger_refresh, the handler of POST /system/refresh: the refresh is    *)
(* spawned as a task of its own, whose first await is the lock, and the    *)
(* handler answers 202 without awaiting the task.                          *)
(***************************************************************************)
TriggerRefresh(p) ==
    /\ refresh[p].pc = "idle"
    /\ started < MaxRefreshes
    /\ started' = started + 1
    /\ refresh' = [refresh EXCEPT ![p].pc = "lock"]
    /\ accepted' = accepted + 1
    /\ UNCHANGED <<facilities, ingestion_status, refresh_lock, returned>>
    /\ UNCHANGED <<repo_kind, voteVars, limiterVars, readVars, frontVars, scheduler>>

\* the awaits of the refresh() of task p, the wait for the lock apart: the
\* status read, a connector fetch, a sleep, a repository call
RefreshAwait(p) ==
    \/ ReadPreviousStatus(p)
    \/ \E records \in FetchResults : FetchOk(p, records)
    \/ FetchErrRetry(p)
    \/ Sleep(p)
    \/ FetchErrFinal(p)
    \/ MemReplaceAll(p)
    \/ PgBegin(p)
    \/ PgTruncate(p)
    \/ PgInsertChunk(p)
    \/ PgInsertConflict(p)
    \/ PgCommit(p)
    \/ PgReplaceFail(p)
    \/ SetStatus(p)
    \/ SetStatusFail(p)

\* the safety gates, which await nothing
RefreshGate(p) == GateFail(p) \/ GatePass(p)

NextQueue ==
    \E p \in Callers :
        \/ TriggerRefresh(p)
        \/ AcquireLock(p)
        \/ RefreshAwait(p)
        \/ RefreshGate(p)

(***************************************************************************)
(* scheduler::run in worker mode, where the scheduler is the only caller   *)
(* of refresh(): the first tick of the interval completes at once and is   *)
(* consumed, then every pass of the loop awaits a tick and awaits          *)
(* refresh().  Both arms of the if let go back to the top of the loop.     *)
(***************************************************************************)
SchedulerCaller == 1

\* interval.tick().await before the loop
SchedulerFirstTick ==
    /\ scheduler.pc = "first_tick"
    /\ scheduler' = [scheduler EXCEPT !.pc = "tick", !.ticks = 1]
    /\ UNCHANGED ingestVars
    /\ UNCHANGED notScheduler

\* interval.tick().await in the loop, then ingestion_service.refresh() is called
SchedulerTick ==
    /\ scheduler.pc = "tick"
    /\ scheduler' = [scheduler EXCEPT !.pc = "refresh", !.ticks = @ + 1]
    /\ refresh[SchedulerCaller].pc = "idle"
    /\ started < MaxRefreshes
    /\ started' = started + 1
    /\ refresh' = [refresh EXCEPT ![SchedulerCaller].pc = "lock"]
    /\ UNCHANGED <<facilities, ingestion_status, refresh_lock, returned>>
    /\ UNCHANGED notScheduler

\* faulty variant: the loop is left when refresh() returns an error
SchedulerResume_breakOnErr ==
    /\ scheduler.pc = "refresh"
    /\ refresh[SchedulerCaller].pc = "idle"
    /\ scheduler' = [scheduler EXCEPT !.pc = IF returned = "Ok" THEN "tick" ELSE "done",
                                      !.log = Append(@, returned)]
    /\ UNCHANGED ingestVars
    /\ UNCHANGED notScheduler

\* refresh() has returned: error!(..); continue, or info!(..); the loop goes on
SchedulerResume ==
    /\ scheduler.pc = "refresh"
    /\ refresh[SchedulerCaller].pc = "idle"
    /\ scheduler' = [scheduler EXCEPT !.pc = "tick", !.log = Append(@, returned)]
    /\ UNCHANGED ingestVars
    /\ UNCHANGED notScheduler

\* the steps of the refresh() that the scheduler awaits
SchedulerRefreshStep ==
    /\ scheduler.pc = "refresh"
    /\ \/ AcquireLock(SchedulerCaller)
       \/ ReadPreviousStatus(SchedulerCaller)
       \/ \E records \in FetchResults : FetchOk(SchedulerCaller, records)
       \/ FetchErrRetry(SchedulerCaller)
       \/ Sleep(SchedulerCaller)
       \/ FetchErrFinal(SchedulerCaller)
       \/ GateFail(SchedulerCaller)
       \/ GatePass(SchedulerCaller)
       \/ MemReplaceAll(SchedulerCaller)
       \/ PgBegin(SchedulerCaller)
       \/ PgTruncate(SchedulerCaller)
       \/ PgInsertChunk(SchedulerCaller)
       \/ PgInsertConflict(SchedulerCaller)
       \/ PgCommit(SchedulerCaller)
       \/ PgReplaceFail(SchedulerCaller)
       \/ SetStatus(SchedulerCaller)
       \/ SetStatusFail(SchedulerCaller)

NextScheduler ==
    \/ SchedulerFirstTick
    \/ SchedulerTick
    \/ SchedulerResume
    \/ SchedulerRefreshStep

(***************************************************************************)
(* Specifications.  Each runs one part of the system and leaves the state  *)
(* of the others as constructed; those of the read side start from a       *)
(* snapshot and a ledger that earlier refreshes and votes left.            *)
(***************************************************************************)
Init ==
    /\ repo_kind \in {"memory", "postgres"}
    /\ InitIngest /\ InitVotes /\ InitLimiter /\ InitReads /\ InitFront /\ scheduler = NoScheduler
    /\ max_requests = MaxRequests /\ window = MaxWindow

Next == NextIngest

Spec == Init /\ [][Next]_vars

SpecVotes == Init /\ [][NextVotes]_vars

InitLimiterConfigs ==
    /\ repo_kind = "memory"
    /\ InitIngest /\ InitVotes /\ InitLimiter /\ InitReads /\ InitFront /\ scheduler = NoScheduler
    /\ max_requests \in 0..MaxRequests
    /\ window \in 0..MaxWindow

SpecLimiter == InitLimiterConfigs /\ [][NextLimiter]_vars

InitScenario ==
    /\ repo_kind = "memory"
    /\ InitIngest /\ InitVotes /\ InitLimiter /\ InitReads /\ InitFront /\ scheduler = NoScheduler
    /\ max_requests = ScenarioMaxRequests
    /\ window = ScenarioWindow

SpecScenario == InitScenario /\ [][NextScenario]_vars

\* a snapshot and a ledger are in place, as earlier refreshes and votes left them
InitSearch ==
    /\ repo_kind \in {"memory", "postgres"}
    /\ facilities \in SearchSnapshots
    /\ ingestion_status = None
    /\ refresh_lock = 0
    /\ refresh = [p \in Callers |-> IdleCall]
    /\ started = 0
    /\ returned = "none"
    /\ votes = SearchLedger
    /\ upserts = [u \in UpsertCalls |-> IdleUpsert]
    /\ upsert_count = 0
    /\ ever_voted = DOMAIN SearchLedger
    /\ last_summary = None
    /\ InitLimiter /\ InitReads /\ InitFront /\ scheduler = NoScheduler
    /\ max_requests = MaxRequests /\ window = MaxWindow

SpecSearch == InitSearch /\ [][NextSearch]_vars

SpecScore == Init /\ [][NextScore]_vars

\* vote requests arrive while the second refresh replaces the snapshot
InitEndpoint ==
    /\ repo_kind \in {"memory", "postgres"}
    /\ MidRefresh
    /\ InitVotes /\ InitLimiter /\ InitReads /\ InitFront /\ scheduler = NoScheduler
    /\ max_requests = MaxRequests /\ window = MaxWindow

SpecEndpoint == InitEndpoint /\ [][NextEndpoint]_vars

\* scheduler::run has been entered; nothing has been ingested yet
InitScheduler ==
    /\ repo_kind \in {"memory", "postgres"}
    /\ InitIngest /\ InitVotes /\ InitLimiter /\ InitReads /\ InitFront
    /\ max_requests = MaxRequests /\ window = MaxWindow
    /\ scheduler = [pc |-> "first_tick", ticks |-> 0, log |-> <<>>]

SpecScheduler == InitScheduler /\ [][NextScheduler]_vars

\* The refreshes triggered over HTTP.  Every await of a started refresh
\* returns (connector fetch, sleep, repository call): weak fairness of its
\* steps.  The gates are plain code between two awaits, which a task that
\* runs does not stay at.  tokio's Mutex hands the lock to its waiters in
\* turn: a waiter to whom the lock is free again and again gets it, strong
\* fairness.
FairQueue ==
    \A p \in Callers :
        /\ WF_vars(RefreshAwait(p))
        /\ []<>(refresh[p].pc # "gate")
        /\ SF_vars(AcquireLock(p))

SpecQueue == Init /\ [][NextQueue]_vars /\ FairQueue

\* a snapshot and a ledger are in place; one more vote may arrive while top
\* picks are read, or none in the snapshot of many liked facilities
InitPicks ==
    /\ repo_kind \in {"memory", "postgres"}
    /\ ingestion_status = None
    /\ refresh_lock = 0
    /\ refresh = [p \in Callers |-> IdleCall]
    /\ started = 0
    /\ returned = "none"
    /\ \/ /\ facilities \in PickSnapshots
          /\ votes \in PickLedgers
          /\ upsert_count = MaxUpserts - 1
       \/ /\ facilities = ManyLiked
          /\ votes = ManyLikedLedger
          /\ upsert_count = MaxUpserts
    /\ upserts = [u \in UpsertCalls |-> IdleUpsert]
    /\ ever_voted = DOMAIN votes
    /\ last_summary = None
    /\ InitLimiter /\ InitReads /\ InitFront /\ scheduler = NoScheduler
    /\ max_requests = MaxRequests /\ window = MaxWindow

SpecPicks == InitPicks /\ [][NextPicks]_vars

(***************************************************************************)
(* Properties of the ingestion coordinator and the repository (Spec).      *)
(***************************************************************************)
InRefresh(p) == refresh[p].pc \notin {"idle", "lock"}

\* caller p's refresh() returns in this step
Returns(p) == InRefresh(p) /\ refresh'[p].pc = "idle"

StitchedCount(c) == Cardinality(DOMAIN c.stitched)

IdsUnique(rows) == \A i, j \in 1..Len(rows) : rows[i].id = rows[j].id => i = j

\* C1: a refresh() that returns an error (a failed gate, a replace_all
\* failure or a set_system_ingestion_status failure) leaves list() and
\* get_system_ingestion_status() as they were when the refresh started.
C1_FailedRefreshLeavesState ==
    [][\A p \in Callers :
          (Returns(p) /\ returned' # "Ok") =>
              /\ list' = refresh[p].pre_facilities
              /\ ingestion_status' = refresh[p].pre_status]_vars

\* C1, reached: a refresh returned the status-write error after its
\* replace_all changed the snapshot.
C1_StatusWriteFailedAfterSwap ==
    /\ returned = "set_system_ingestion_status failed"
    /\ \A p \in Callers : ~InRefresh(p)
    /\ ingestion_status = None
    /\ list # <<>>

\* C2: with a previous status of P unique facilities, a refresh that stitched
\* N records calls replace_all only if N >= max(1, P / 2) (integer division);
\* with N smaller it returns an error, has called neither replace_all nor
\* set_system_ingestion_status and leaves snapshot and status alone.  Without
\* a previous status every N >= 1 passes the gates.
C2_SizeGate ==
    /\ [](\A p \in Callers :
            LET c == refresh[p]
            IN  ("replace_all" \in c.called /\ c.previous_status # None) =>
                    StitchedCount(c) >= Max(1, Unwrap(c.previous_status).unique_facilities \div 2))
    /\ [][\A p \in Callers :
            LET c == refresh[p]
                N == StitchedCount(c)
            IN  (c.pc = "gate" /\ refresh'[p] # c) =>
                   IF c.previous_status # None
                      /\ N < Max(1, Unwrap(c.previous_status).unique_facilities \div 2)
                   THEN /\ Returns(p) /\ returned' # "Ok"
                        /\ c.called = {}
                        /\ UNCHANGED <<facilities, ingestion_status>>
                   ELSE (N >= 1) => refresh'[p].pc = "replace_all"]_vars

\* C2, reached: a refresh with previous unique_facilities = 4 stitched one
\* record and returned the size-gate error
C2_TooSmallRejected ==
    /\ returned = "ingestion result too small"
    /\ ingestion_status # None
    /\ Unwrap(ingestion_status).unique_facilities = 4
    /\ Len(list) = 4

\* C3: a refresh in which no connector succeeded, or whose stitched map is
\* empty, returns an error without calling replace_all or
\* set_system_ingestion_status; snapshot and status stay.
C3_EmptyGates ==
    /\ [](\A p \in Callers :
            LET c == refresh[p]
            IN  c.called # {} => (c.successful_connectors >= 1 /\ StitchedCount(c) >= 1))
    /\ [][\A p \in Callers :
            LET c == refresh[p]
            IN  (/\ c.pc = "gate"
                 /\ (c.successful_connectors = 0 \/ StitchedCount(c) = 0)
                 /\ refresh'[p] # c) =>
                    /\ Returns(p) /\ returned' # "Ok"
                    /\ c.called = {}
                    /\ UNCHANGED <<facilities, ingestion_status>>]_vars

\* C3, reached: after a successful refresh, a refresh whose connectors all
\* failed returned its error and the snapshot is still there
C3_NoConnectorRejected ==
    /\ returned = "no connectors succeeded"
    /\ ingestion_status # None
    /\ list # <<>>

\* C4: at most one refresh() is between acquiring refresh_lock and returning,
\* and it is the one holding the lock.
C4_MutualExclusion ==
    /\ Cardinality({p \in Callers : InRefresh(p)}) <= 1
    /\ \A p \in Callers : InRefresh(p) => refresh_lock = p

\* C4, reached: one caller is inside refresh() while another waits for the lock
C4_OneInOneWaiting ==
    \E p, q \in Callers :
        /\ refresh[p].pc = "pg_insert"
        /\ refresh[q].pc = "lock"

\* C5: while replace_all(new) runs, a reader (list, get_by_id, search) sees
\* the complete prior set until the swap and the complete new set after it,
\* never a truncated or partially inserted table.
C5_AtomicReplace ==
    \A p \in Callers :
        LET c == refresh[p]
        IN  /\ c.pc \in {"replace_all", "pg_truncate", "pg_insert", "pg_commit"} =>
                 list = c.pre_facilities
            /\ c.pc = "set_status" => list = c.facilities

\* C5, reached: the transaction has truncated and inserted the first batch of
\* a two-batch snapshot while readers still see a non-empty prior set
C5_MidTransaction ==
    \E p \in Callers :
        LET c == refresh[p]
        IN  /\ c.pc = "pg_insert"
            /\ Len(Unwrap(c.transaction)) = BatchRows
            /\ Len(c.facilities) > BatchRows
            /\ list # <<>>
            /\ list # c.facilities

\* C6: after a successful refresh, every dedupe key among the records of the
\* successful connectors has exactly one facility in the snapshot, built from
\* a fetched record with that key, whose inspection carries the latest
\* inspected_at of the fetched records with that key.
C6_DedupKeepsMostRecent ==
    [][\A p \in Callers :
          (Returns(p) /\ returned' = "Ok") =>
              LET fetched == refresh[p].fetched
                  rows == list'
              IN  /\ \A r \in fetched :
                        \E i \in 1..Len(rows) :
                           /\ dedupe_key(rows[i]) = dedupe_key(r)
                           /\ \A j \in 1..Len(rows) :
                                 dedupe_key(rows[j]) = dedupe_key(r) => j = i
                           /\ \E w \in fetched :
                                 /\ dedupe_key(w) = dedupe_key(r)
                                 /\ rows[i] = normalize(w)
                           /\ Len(rows[i].inspections) = 1
                           /\ \A o \in fetched :
                                 dedupe_key(o) = dedupe_key(r) =>
                                    o.inspected_at <= rows[i].inspections[1].inspected_at
                  /\ \A i \in 1..Len(rows) :
                        \E r \in fetched : dedupe_key(r) = dedupe_key(rows[i])]_vars

\* C6, reached: a successful refresh fetched both records of one key, the
\* later one first, and the snapshot holds the later one
C6_LaterRecordKept ==
    /\ returned = "Ok"
    /\ \A p \in Callers : ~InRefresh(p)
    /\ Unwrap(ingestion_status).connector_stats[1].fetched_records = 2
    /\ Unwrap(ingestion_status).connector_stats[2].error # None
    /\ list = <<normalize(RecJoeNew)>>

\* C7: after every successful refresh no two facilities of list() share an id.
C7_FacilityIdsUnique ==
    (returned = "Ok" /\ \A p \in Callers : ~InRefresh(p)) => IdsUnique(list)

\* the three safety gates of C2 and C3, stated over a call's locals
GatesHold(c) ==
    /\ c.successful_connectors >= 1
    /\ StitchedCount(c) >= 1
    /\ c.previous_status # None =>
          StitchedCount(c) >= Max(1, Unwrap(c.previous_status).unique_facilities \div 2)

\* what C11 promises of a refresh that returns Ok: the snapshot is built from
\* records of the successful connectors only, and the written status has one
\* entry per connector, in order, a failed one with error set and
\* fetched_records = 0
OkOutcome(c) ==
    /\ returned' = "Ok"
    /\ list' = c.facilities
    /\ \A i \in 1..Len(list') : \E w \in c.fetched : list'[i] = normalize(w)
    /\ ingestion_status' # None
    /\ LET stats == Unwrap(ingestion_status').connector_stats
       IN  /\ Len(stats) = NumConnectors
           /\ \A i \in 1..NumConnectors :
                 /\ stats[i].source = Connectors[i]
                 /\ i \in c.failed => (stats[i].error # None /\ stats[i].fetched_records = 0)
                 /\ i \notin c.failed => stats[i].error = None

C12_BoundedRetry ==
    /\ [](\A p \in Callers :
            LET c == refresh[p]
            IN  /\ c.pc \in {"fetch", "sleep"} =>
                      /\ c.connector \in 1..NumConnectors
                      /\ c.attempt <= 2
                      /\ Len(c.connector_stats) = c.connector - 1
                /\ c.pc = "sleep" =>
                      /\ c.attempt \in 1..2
                      /\ c.backoff_seconds = 2 * c.attempt
                /\ c.pc \in {"gate", "replace_all", "set_status"} =>
                      Len(c.connector_stats) = NumConnectors
                /\ \A i \in 1..Len(c.connector_stats) :
                      c.connector_stats[i].source = Connectors[i])
    /\ [][\A p \in Callers :
            LET c == refresh[p]
                d == refresh'[p]
            IN  /\ (c.pc = "fetch" /\ d # c) =>
                      \/ /\ d.connector_stats # c.connector_stats
                         /\ d.connector_stats[c.connector].error = None
                         /\ d.connector = c.connector + 1
                         /\ d.attempt = 0
                         /\ d.pc \in {"fetch", "gate"}
                      \/ /\ c.attempt < 2
                         /\ d.pc = "sleep"
                         /\ d.connector = c.connector
                         /\ d.attempt = c.attempt + 1
                         /\ d.connector_stats = c.connector_stats
                      \/ /\ c.attempt = 2
                         /\ d.connector_stats # c.connector_stats
                         /\ d.connector_stats[c.connector].error # None
                         /\ d.connector = c.connector + 1
                         /\ d.attempt = 0
                         /\ d.pc \in {"fetch", "gate"}
                /\ (c.pc = "sleep" /\ d # c) =>
                      /\ d.pc = "fetch"
                      /\ d.connector = c.connector
                      /\ d.attempt = c.attempt]_vars

\* C12, reached: the second connector, after the first succeeded, waits 4
\* seconds before its third attempt
C12_WaitsBeforeThirdAttempt ==
    \E p \in Callers :
        LET c == refresh[p]
        IN  /\ c.pc = "sleep"
            /\ c.connector = 2
            /\ c.attempt = 2
            /\ c.backoff_seconds = 4
            /\ c.connector_stats[1].error = None

\* C13: within one refresh the status is written only after replace_all has
\* returned Ok and the refresh's snapshot is the visible one; a replace_all
\* error ends the refresh without a status write.
C13_StatusAfterReplace ==
    /\ [](\A p \in Callers :
            refresh[p].pc = "set_status" =>
               /\ "replace_all" \in refresh[p].called
               /\ list = refresh[p].facilities)
    /\ [][/\ ingestion_status' # ingestion_status =>
                \E p \in Callers :
                   /\ refresh[p].pc = "set_status"
                   /\ list = refresh[p].facilities
                   /\ ingestion_status' = Some(StatusSnapshot(refresh[p]))
          /\ \A p \in Callers :
                (Returns(p) /\ returned' = "replace_all failed") =>
                   /\ refresh[p].pc # "set_status"
                   /\ ingestion_status' = ingestion_status]_vars

\* C13, reached: the PostgreSQL transaction of a refresh has committed a
\* snapshot that differs from the prior one and the status write is next
C13_SwappedBeforeStatus ==
    \E p \in Callers :
        /\ repo_kind = "postgres"
        /\ refresh[p].pc = "set_status"
        /\ list = refresh[p].facilities
        /\ list # refresh[p].pre_facilities
        /\ refresh[p].pre_facilities # <<>>
        /\ ingestion_status = refresh[p].pre_status

(***************************************************************************)
(* Properties of the vote ledger (SpecVotes).                              *)
(***************************************************************************)
\* upsert call u applies its write in this step
Writes(u) == upserts[u].pc = "idle" /\ upserts'[u].pc = "summary"

\* C8: each (facility_id, voter_key) pair that ever voted contributes exactly
\* 1 to likes + dislikes of its facility and the others 0; an upsert that
\* turns a like into a dislike changes (likes, dislikes) of the facility by
\* (-1, +1), the reverse by (+1, -1), a repeated vote leaves them; the
\* tallies of the other facilities stay.
C8_UpsertSemantics ==
    /\ [](\A f \in FacilityIds :
            LET summary == get_facility_vote_summary(f)
            IN  summary.likes + summary.dislikes =
                    Cardinality({k \in ever_voted : k[1] = f}))
    /\ [][\A u \in UpsertCalls :
            Writes(u) =>
               LET call == upserts'[u]
                   key == <<call.facility_id, call.voter_key>>
                   old == get_facility_vote_summary(call.facility_id)
                   new == Tally(votes', call.facility_id)
               IN  /\ IF key \in DOMAIN votes
                      THEN IF votes[key] = call.vote
                           THEN new = old
                           ELSE IF call.vote = "Dislike"
                           THEN new = [likes |-> old.likes - 1, dislikes |-> old.dislikes + 1]
                           ELSE new = [likes |-> old.likes + 1, dislikes |-> old.dislikes - 1]
                      ELSE IF call.vote = "Like"
                           THEN new = [likes |-> old.likes + 1, dislikes |-> old.dislikes]
                           ELSE new = [likes |-> old.likes, dislikes |-> old.dislikes + 1]
                   /\ \A f \in FacilityIds \ {call.facility_id} :
                         Tally(votes', f) = get_facility_vote_summary(f)]_vars

\* C8, reached: v1's like of a facility was answered {1, 0}, v1's dislike has
\* been written over it and the facility counts {0, 1}, beside a vote for
\* another facility
C8_VoteFlipped ==
    /\ last_summary # None
    /\ Unwrap(last_summary).call.vote = "Like"
    /\ Unwrap(last_summary).call.facility_id = normalize(RecJoeOld).id
    /\ Unwrap(last_summary).call.voter_key = "v1"
    /\ Unwrap(last_summary).summary = [likes |-> 1, dislikes |-> 0]
    /\ <<normalize(RecJoeOld).id, "v1">> \in DOMAIN votes
    /\ votes[<<normalize(RecJoeOld).id, "v1">>] = "Dislike"
    /\ get_facility_vote_summary(normalize(RecJoeOld).id) = [likes |-> 0, dislikes |-> 1]
    /\ get_facility_vote_summary(normalize(RecZoe).id).likes = 1

(***************************************************************************)
(* Properties of the rate limiter (SpecLimiter, SpecScenario).             *)
(***************************************************************************)
\* an allow() call is a step that leaves the clock
AllowStep == now' = now /\ last_allow' # None

\* the instants of a queue that are not older than window at instant t
NotOlderThanWindow(queue, t) == SelectSeq(queue, LAMBDA i : t - i <= window)

\* C9: for every key and configuration, allow(key) drops the key's instants
\* older than window, returns false if max_requests or more remain, and
\* otherwise appends now and returns true; so no key has more than
\* max_requests accepted instants inside one window.
C9_DecisionRule ==
    /\ [](\A key \in DOMAIN limiter :
            Len(NotOlderThanWindow(limiter[key], now)) <= max_requests)
    /\ [][AllowStep =>
            LET call == Unwrap(last_allow')
                remaining == NotOlderThanWindow(EntryOrDefault(limiter, call.key), now)
            IN  IF Len(remaining) >= max_requests
                THEN call.result = FALSE
                ELSE /\ call.result = TRUE
                     /\ limiter'[call.key] = Append(remaining, now)]_vars

\* the parts of C10 that the boundary does not touch: with fewer than
\* max_requests accepts on record, all less than window old, the call is
\* accepted; with max_requests on record, the first less than window old, it
\* is rejected; and when only the first accept has expired the accepted call
\* takes the one freed slot
C10_Common(call, queue) ==
    /\ (Len(queue) < max_requests /\ (queue = <<>> \/ now - queue[1] < window)) =>
           /\ call.result = TRUE
           /\ limiter'[call.key] = Append(queue, now)
    /\ (Len(queue) = max_requests /\ now - queue[1] < window) =>
           call.result = FALSE
    /\ (/\ Len(queue) = max_requests /\ call.result = TRUE
        /\ now - queue[1] > window /\ now - queue[2] <= window) =>
           /\ call.expired = 1
           /\ limiter'[call.key] = Append(Tail(queue), now)

\* C10 as stated: with max_requests = 5 and window = 60 s, five calls within
\* less than 60 s are accepted and the sixth is rejected; a call at
\* t >= t_first + window is accepted, one slot being freed.
C10_ExpiryAtWindow ==
    [][AllowStep =>
          LET call == Unwrap(last_allow')
              queue == EntryOrDefault(limiter, call.key)
          IN  /\ C10_Common(call, queue)
              /\ (Len(queue) = max_requests /\ now - queue[1] >= window) =>
                     call.result = TRUE]_vars

\* C10 amended: the first accept expires once more than window has elapsed:
\* a call at t > t_first + window is accepted.
C10_ExpiryAfterWindow ==
    [][AllowStep =>
          LET call == Unwrap(last_allow')
              queue == EntryOrDefault(limiter, call.key)
          IN  /\ C10_Common(call, queue)
              /\ (Len(queue) = max_requests /\ now - queue[1] > window) =>
                     call.result = TRUE]_vars

\* C10, reached: a call found max_requests accepts on record, dropped exactly
\* the first and was accepted into the freed slot
C10_SlotFreed ==
    /\ last_allow # None
    /\ Unwrap(last_allow).result = TRUE
    /\ Unwrap(last_allow).expired = 1
    /\ Len(limiter[ScenarioKey]) = ScenarioMaxRequests
    /\ limiter[ScenarioKey][ScenarioMaxRequests] = now

\* C10, the boundary: a call exactly window after the first of max_requests
\* accepts was rejected
C10_RejectedAtBoundary ==
    /\ last_allow # None
    /\ Unwrap(last_allow).result = FALSE
    /\ Len(limiter[ScenarioKey]) = ScenarioMaxRequests
    /\ now - limiter[ScenarioKey][1] = window

(***************************************************************************)
(* Properties of the search responses                                      *)
(***************************************************************************)
\* a search was answered without an error
Answered == search # None /\ Unwrap(search).result.ok

\* the slice_counts entry of a slice name
SliceCountOf(slice_counts, slice) ==
    CASE slice = <<"e","l","i","t","e">> -> slice_counts.elite
      [] slice = <<"s","o","l","i","d">> -> slice_counts.solid
      [] slice = <<"w","a","t","c","h">> -> slice_counts.watch
      [] OTHER -> slice_counts.all

\* C14: when score_slice is one of elite, solid, watch, total_count of the
\* response equals the slice_counts entry of that slice.
C14_TotalCountIsSliceCount ==
    (Answered /\ Unwrap(search).query.score_slice # None) =>
        LET result == Unwrap(search).result
        IN  result.total_count =
                SliceCountOf(result.slice_counts, Unwrap(Unwrap(search).query.score_slice))

\* C14, reached: a solid-slice search over four candidates counted one
C14_SolidSliceOfFour ==
    /\ Answered
    /\ Unwrap(search).query.score_slice = Some(<<"s","o","l","i","d">>)
    /\ Unwrap(search).result.slice_counts.all = 4
    /\ Unwrap(search).result.total_count = 1

\* C15: the facet counts are taken before the score_slice filter: the same
\* query with any other score_slice returns the same slice_counts.
C15_FacetsBeforeSlice ==
    search # None =>
        LET request == Unwrap(search)
        IN  \A score_slice \in QuerySlices :
                LET other == RunSearch(request.via,
                                       [request.query EXCEPT !.score_slice = score_slice],
                                       request.utc_now)
                IN  /\ other.ok = request.result.ok
                    /\ request.result.ok => other.slice_counts = request.result.slice_counts

\* C15, reached: the elite-only search over trust 95, 85, 72, 60 returned the
\* counts of all four
C15_EliteOfFour ==
    /\ Answered
    /\ Unwrap(search).query.score_slice = Some(<<"e","l","i","t","e">>)
    /\ Unwrap(search).result.total_count = 1
    /\ Unwrap(search).result.slice_counts = [all |-> 4, elite |-> 1, solid |-> 1, watch |-> 2]

\* C16: slice_counts.all is the sum of the elite, solid and watch counts.
C16_SlicesPartition ==
    Answered =>
        LET slice_counts == Unwrap(search).result.slice_counts
        IN  slice_counts.all = slice_counts.elite + slice_counts.solid + slice_counts.watch

\* C16, reached: counts with every band occupied
C16_EveryBandOccupied ==
    /\ Answered
    /\ Unwrap(search).result.slice_counts.elite > 0
    /\ Unwrap(search).result.slice_counts.solid > 0
    /\ Unwrap(search).result.slice_counts.watch > 1

\* C17: the number of entries returned is at most the effective page_size,
\* which lies in 1..200 and is 50 when neither page_size nor limit is given,
\* and at most total_count.
C17_PageBounds ==
    Answered =>
        LET request == Unwrap(search)
            result == request.result
        IN  /\ result.count = Len(result.data)
            /\ result.page_size \in 1..MAX_PAGE_SIZE
            /\ (request.query.page_size = None /\ request.query.limit = None) =>
                   result.page_size = DEFAULT_PAGE_SIZE
            /\ result.count <= result.page_size
            /\ result.count <= result.total_count

\* C17, reached: page_size 0 was raised to 1 and cut a longer result to one
\* entry
C17_ZeroPageSizeCut ==
    /\ Answered
    /\ Unwrap(search).query.page_size = Some(0)
    /\ Unwrap(search).result.page_size = 1
    /\ Unwrap(search).result.count = 1
    /\ Unwrap(search).result.total_count > 1

\* the ids of all candidates of a query: its filters on one page wide enough
\* for the snapshot, without the slice
CandidateIds(via, query, utc_now) ==
    LET wide == RunSearch(via, [query EXCEPT !.score_slice = None, !.page = None,
                                             !.page_size = Some(MAX_PAGE_SIZE),
                                             !.limit = None], utc_now)
    IN  {wide.data[i].id : i \in 1..Len(wide.data)}

NoJurisdiction(query) == [query EXCEPT !.jurisdiction = None]

NoGeo(query) == [query EXCEPT !.latitude = None, !.longitude = None, !.radius_miles = None]

OrangeCountyIds ==
    {facilities[i].id : i \in {k \in 1..Len(facilities) :
                                  facilities[k].jurisdiction = "OrangeCounty"}}

\* C18: jurisdiction absent, empty or "all" keeps every facility; the code
\* "oc" and the label "Orange County" in any case each keep exactly the
\* facilities of Orange County among the candidates of the other filters.
C18_JurisdictionCodeOrLabel ==
    search # None =>
        LET request == Unwrap(search)
            jurisdiction == request.query.jurisdiction
            unfiltered == CandidateIds(request.via, NoJurisdiction(request.query),
                                       request.utc_now)
            kept == CandidateIds(request.via, request.query, request.utc_now)
        IN  /\ jurisdiction \in {None, Some(<<>>), Some(<<"A","l","l">>)} =>
                   request.result = RunSearch(request.via, NoJurisdiction(request.query),
                                              request.utc_now)
            /\ jurisdiction \in {Some(<<"o","c">>), Some(<<"O","R","A","N","G","E"," ","C","o","u","n","t","y">>)} =>
                   /\ kept = unfiltered \cap OrangeCountyIds
                   /\ request.result.ok =>
                          request.result.slice_counts.all = Cardinality(kept)

\* C18 for search_facilities of the repositories, which take code and label
C18_RepositoryCodeOrLabel ==
    (search # None /\ Unwrap(search).via = "repository") => C18_JurisdictionCodeOrLabel

\* C18, reached: the directory service searched A, B of Los Angeles County and
\* C, D of Orange County for jurisdiction "oc" and counted none
C18_CodeKeepsNothing ==
    /\ Answered
    /\ Unwrap(search).via = "service"
    /\ facilities = SnapshotABCD
    /\ Unwrap(search).query =
           QueryOf(None, <<None, None, None>>, Some(<<"o","c">>), None, None, None,
                   <<None, None, None>>)
    /\ Unwrap(search).result.slice_counts.all = 0

\* the facility of the snapshot with an id
FacilityOf(id) == CHOOSE f \in {facilities[i] : i \in 1..Len(facilities)} : f.id = id

\* C19: with a search term the candidates do not depend on latitude,
\* longitude and radius_miles; without one and with all three given, only
\* facilities within the radius (at least 0.1 mile) are kept, and every
\* facility within radius_miles is kept.
C19_GeoOnlyWhenBrowsing ==
    search # None =>
        LET request == Unwrap(search)
            kept == CandidateIds(request.via, request.query, request.utc_now)
            anywhere == CandidateIds(request.via, NoGeo(request.query), request.utc_now)
        IN  IF has_search_term(request.query) THEN kept = anywhere
            ELSE IF HasGeoRadius(request.query)
            THEN /\ kept \subseteq anywhere
                 /\ \A id \in anywhere :
                       LET distance == DistanceTo(request.query, FacilityOf(id))
                       IN  /\ id \in kept =>
                                distance <= Max(Unwrap(request.query.radius_miles), 1)
                           /\ distance <= Unwrap(request.query.radius_miles) => id \in kept
            ELSE TRUE

\* C19, reached: a search for "mastros" 5 miles around the origin returned the
\* facility 10 miles away
C19_MatchOutsideRadius ==
    /\ Answered
    /\ Unwrap(search).query.q = Some(<<"m","a","s","t","r","o","s">>)
    /\ Unwrap(search).query.radius_miles = Some(50)
    /\ \E i \in 1..Len(Unwrap(search).result.data) :
          /\ Unwrap(search).result.data[i].id = normalize(RecMastros).id
          /\ DistanceTo(Unwrap(search).query, normalize(RecMastros)) = 100

\* C19, reached: a search without a term 5 miles around the origin dropped the
\* facility 10 miles away and kept the others
C19_BrowseDropsOutside ==
    /\ Answered
    /\ ~has_search_term(Unwrap(search).query)
    /\ Unwrap(search).query.radius_miles = Some(50)
    /\ facilities = SnapshotABCD
    /\ Unwrap(search).result.slice_counts.all = 3

(***************************************************************************)
(* Properties of top picks                                                 *)
(***************************************************************************)
\* a call of top_picks computes its answer in this step, from the ledger of
\* the step
PicksStep ==
    /\ picks' # None
    /\ picks' # picks
    /\ Unwrap(picks').pc = "done"
    /\ Unwrap(picks').ok

\* what both statements of C20 share: every returned facility is in the
\* snapshot the call read and has a like; below the cap every facility of
\* the snapshot with a like is returned, whatever its dislikes
C20_Membership(call, ledger, cap) ==
    LET returned_ids == {call.data[i].id : i \in 1..Len(call.data)}
        snapshot_ids == {call.facilities[i].id : i \in 1..Len(call.facilities)}
        liked == {id \in snapshot_ids : Tally(ledger, id).likes >= 1}
    IN  /\ returned_ids \subseteq liked
        /\ Cardinality(returned_ids) = Len(call.data)
        /\ Len(call.data) < cap => returned_ids = liked

\* C20 as stated: at most min(limit, 50) entries are returned, for every
\* limit including 0.
C20_CapMinLimit ==
    [][PicksStep =>
          LET call == Unwrap(picks')
          IN  /\ Len(call.data) <= Min(call.limit, MAX_TOP_PICKS)
              /\ C20_Membership(call, votes, Min(call.limit, MAX_TOP_PICKS))]_vars

\* C20 amended: at most min(max(limit, 1), 50) entries are returned: a limit
\* of 0 is raised to 1.
C20_CapClampedLimit ==
    [][PicksStep =>
          LET call == Unwrap(picks')
          IN  /\ Len(call.data) <= Min(Max(call.limit, 1), MAX_TOP_PICKS)
              /\ C20_Membership(call, votes, Min(Max(call.limit, 1), MAX_TOP_PICKS))]_vars

\* C20, reached: a facility with one like and one dislike was returned
C20_LikedAndDislikedReturned ==
    /\ picks # None
    /\ Unwrap(picks).pc = "done"
    /\ Len(Unwrap(picks).data) = 1
    /\ Unwrap(picks).data[1].likes = 1
    /\ Unwrap(picks).data[1].dislikes = 1

\* C20, reached: limit 0 returned one facility
C20_ZeroLimitReturnsOne ==
    /\ picks # None
    /\ Unwrap(picks).pc = "done"
    /\ Unwrap(picks).limit = 0
    /\ Len(Unwrap(picks).data) = 1

\* C20, reached: a limit above 50 over 51 liked facilities returned 50
C20_CutAtFifty ==
    /\ picks # None
    /\ Unwrap(picks).pc = "done"
    /\ Unwrap(picks).limit > MAX_TOP_PICKS
    /\ Len(Unwrap(picks).facilities) > MAX_TOP_PICKS
    /\ Len(Unwrap(picks).data) = MAX_TOP_PICKS

\* the facility of a snapshot with an id
FacilityIn(rows, id) == CHOOSE f \in {rows[i] : i \in 1..Len(rows)} : f.id = id

\* left ranks above right: more likes, then the higher likes - dislikes,
\* then the higher trust_score, then the later updated_at
RanksAbove(left, right) ==
    LET left_key == <<left.votes.likes, left.votes.likes - left.votes.dislikes,
                      left.facility.trust_score, left.facility.updated_at>>
        right_key == <<right.votes.likes, right.votes.likes - right.votes.dislikes,
                       right.facility.trust_score, right.facility.updated_at>>
    IN  \E k \in 1..4 : /\ left_key[k] > right_key[k]
                        /\ \A h \in 1..(k - 1) : left_key[h] = right_key[h]

\* C21: no returned entry ranks above an earlier one; no facility of the
\* snapshot with a like that was left out ranks above a returned one; every
\* entry carries the tallies of its own facility.
C21_TopPicksOrdering ==
    [][PicksStep =>
          LET call == Unwrap(picks')
              entries == [i \in 1..Len(call.data) |->
                              [facility |-> FacilityIn(call.facilities, call.data[i].id),
                               votes |-> [likes |-> call.data[i].likes,
                                          dislikes |-> call.data[i].dislikes]]]
              omitted == {i \in 1..Len(call.facilities) :
                             /\ Tally(votes, call.facilities[i].id).likes > 0
                             /\ \A k \in 1..Len(call.data) :
                                   call.data[k].id # call.facilities[i].id}
          IN  /\ \A i, j \in 1..Len(entries) : i < j => ~RanksAbove(entries[j], entries[i])
              /\ \A i \in omitted, k \in 1..Len(entries) :
                    ~RanksAbove([facility |-> call.facilities[i],
                                 votes |-> Tally(votes, call.facilities[i].id)],
                                entries[k])
              /\ \A k \in 1..Len(entries) :
                    entries[k].votes = Tally(votes, call.data[k].id)]_vars

\* C21, reached: five liked facilities were returned in the order that needs
\* every key: two likes come first although their score is 0, the score
\* puts the disliked facility of one like last, the trust score puts 60
\* behind 85, and updated_at orders the two of trust 85
C21_EveryKeyDecides ==
    /\ picks # None
    /\ Unwrap(picks).pc = "done"
    /\ Unwrap(picks).facilities = RankSnapshot
    /\ [k \in 1..Len(Unwrap(picks).data) |-> Unwrap(picks).data[k].id] =
           <<normalize(RecJoeOld).id, normalize(RecBarTwin).id, normalize(RecBar).id,
             normalize(RecZoe).id, normalize(RecCafes).id>>
    /\ [k \in 1..Len(Unwrap(picks).data) |->
           <<Unwrap(picks).data[k].likes, Unwrap(picks).data[k].dislikes>>] =
           <<<<2, 2>>, <<1, 0>>, <<1, 0>>, <<1, 0>>, <<1, 1>>>>

(***************************************************************************)
(* Properties of the trust score                                           *)
(***************************************************************************)
\* the raw score in tenths, clamped to 0.0 .. 100.0
ClampedTenths(raw) == Max(0, Min(1000, raw.tenths))

\* a numeric raw score decides, whatever the letter and the placard
NumericFirst(call) ==
    (call.signals.raw_score # None /\ ~Unwrap(call.signals.raw_score).nan) =>
        /\ call.result * 10 <= ClampedTenths(Unwrap(call.signals.raw_score))
        /\ ClampedTenths(Unwrap(call.signals.raw_score)) < call.result * 10 + 10

\* without raw score and letter, the placard decides, in any case of letters
PlacardLast(call) ==
    (call.signals.raw_score = None /\ call.signals.letter_grade = None) =>
        IF call.signals.placard_status = None THEN call.result = 60
        ELSE LET placard == to_ascii_lowercase(Unwrap(call.signals.placard_status))
             IN  call.result =
                     CASE placard \in {<<"g","r","e","e","n">>, <<"p","a","s","s">>} -> 95
                       [] placard \in {<<"y","e","l","l","o","w">>, <<"c","o","n","d","i","t","i","o","n","a","l">>} -> 74
                       [] placard \in {<<"r","e","d">>, <<"c","l","o","s","e","d">>} -> 40
                       [] OTHER -> 60

LetterValue(grade) ==
    CASE grade = <<"A">> -> 95
      [] grade = <<"B">> -> 84
      [] grade = <<"C">> -> 74
      [] OTHER -> 65

\* C22 as stated: numeric before letter before placard before the default,
\* the letters A, B and C as written and any other letter grade 65.
C22_PrecedenceExactLetter ==
    last_score # None =>
        LET call == Unwrap(last_score)
        IN  /\ NumericFirst(call)
            /\ (call.signals.raw_score = None /\ call.signals.letter_grade # None) =>
                   call.result = LetterValue(Unwrap(call.signals.letter_grade))
            /\ PlacardLast(call)

\* C22 amended: the letter grade is compared without regard to case, so "a"
\* scores 95 as "A" does; a raw score that is not a number scores 0.
C22_PrecedenceAnyCaseLetter ==
    last_score # None =>
        LET call == Unwrap(last_score)
        IN  /\ NumericFirst(call)
            /\ (call.signals.raw_score # None /\ Unwrap(call.signals.raw_score).nan) =>
                   call.result = 0
            /\ (call.signals.raw_score = None /\ call.signals.letter_grade # None) =>
                   call.result =
                       LetterValue(to_ascii_uppercase(Unwrap(call.signals.letter_grade)))
            /\ PlacardLast(call)

\* C22, reached: raw score 99.9 with letter C and a red placard scored 99
C22_NumericOverLetterAndPlacard ==
    /\ last_score # None
    /\ Unwrap(last_score).signals = [raw_score |-> Some(F32(999)), letter_grade |-> Some(<<"C">>),
                                 placard_status |-> Some(<<"r","e","d">>)]
    /\ Unwrap(last_score).result = 99

\* C22, reached: the letter "a" with a red placard scored 95
C22_LowercaseLetter ==
    /\ last_score # None
    /\ Unwrap(last_score).signals = [raw_score |-> None, letter_grade |-> Some(<<"a">>),
                                 placard_status |-> Some(<<"r","e","d">>)]
    /\ Unwrap(last_score).result = 95

\* the facility that normalize builds from a record with the signals
FacilityWith(signals) ==
    normalize(SourceRecord(<<"1">>, <<"J","o","e">>, "LosAngelesCounty", 1,
                           signals.raw_score, signals.letter_grade, signals.placard_status))

\* C32: the trust score is in 0..100 for every combination of signals,
\* whether they are present or absent and whatever the raw score (NaN,
\* negative, fractional, above 100); the facility that normalize builds from
\* a record has a trust_score in 0..100, and it is the value that a call of
\* score with the same signals returned: the score depends on the signals
\* alone.
C32_ScoreInRange ==
    /\ last_score # None =>
          /\ Unwrap(last_score).result \in 0..100
          /\ FacilityWith(Unwrap(last_score).signals).trust_score = Unwrap(last_score).result
    /\ \A signals \in ScoreSignals : FacilityWith(signals).trust_score \in 0..100

\* C32, reached: a raw score below 0 scored 0 although a letter and a
\* placard were given
C32_NegativeRawScore ==
    /\ last_score # None
    /\ Unwrap(last_score).signals = [raw_score |-> Some(F32(-5)), letter_grade |-> Some(<<"A">>),
                                     placard_status |-> Some(<<"g","r","e","e","n">>)]
    /\ Unwrap(last_score).result = 0

\* the ids the request returns when only its recent_only flag filters
RecentIds(request) ==
    LET wide == RunSearch(request.via,
                          [request.query EXCEPT !.q = None, !.latitude = None,
                                                !.longitude = None, !.radius_miles = None,
                                                !.jurisdiction = None, !.score_slice = None,
                                                !.page = None, !.page_size = Some(MAX_PAGE_SIZE),
                                                !.limit = None], request.utc_now)
    IN  {wide.data[i].id : i \in 1..Len(wide.data)}

\* the ids of the facilities whose latest inspection is at or after
\* now - 90 days
InspectedSince90Days(utc_now) ==
    {facilities[i].id : i \in {j \in 1..Len(facilities) :
        /\ latest_inspection_at(facilities[j]) # None
        /\ Unwrap(latest_inspection_at(facilities[j])) >= utc_now - days(RECENT_DAYS)}}

\* C33: with recent_only = true a facility is kept if and only if its latest
\* inspection is at or after now - 90 days, and without the flag none is
\* dropped, by the directory service and by both repositories alike.
C33_RecentBoundary ==
    search # None /\ Unwrap(search).result.ok =>
        RecentIds(Unwrap(search)) =
            IF unwrap_or(Unwrap(search).query.recent_only, FALSE)
            THEN InspectedSince90Days(Unwrap(search).utc_now)
            ELSE {facilities[i].id : i \in 1..Len(facilities)}

\* C33, the part that holds: the repositories keep exactly the facilities
\* inspected at or after now - 90 days; the directory service keeps exactly
\* those for which fewer than 91 whole days have passed.
C33_RecentBoundaryPerSite ==
    search # None /\ Unwrap(search).result.ok =>
        RecentIds(Unwrap(search)) =
            IF ~unwrap_or(Unwrap(search).query.recent_only, FALSE)
            THEN {facilities[i].id : i \in 1..Len(facilities)}
            ELSE IF Unwrap(search).via = "service"
            THEN {facilities[i].id : i \in {j \in 1..Len(facilities) :
                    /\ latest_inspection_at(facilities[j]) # None
                    /\ Unwrap(search).utc_now - Unwrap(latest_inspection_at(facilities[j]))
                          < days(RECENT_DAYS + 1)}}
            ELSE InspectedSince90Days(Unwrap(search).utc_now)

\* C33, reached: the directory service keeps a facility inspected 90 days
\* and 12 hours ago
C33_KeptAfter90DaysAndAHalf ==
    /\ search # None /\ Unwrap(search).result.ok
    /\ Unwrap(search).via = "service"
    /\ Unwrap(search).query.recent_only = Some(TRUE)
    /\ Unwrap(search).utc_now = days(91)
    /\ normalize(RecZoe).id \in RecentIds(Unwrap(search))
    /\ Unwrap(search).utc_now - Unwrap(latest_inspection_at(normalize(RecZoe)))
          = days(RECENT_DAYS) + 1

(***************************************************************************)
(* Properties of the vote endpoint                                         *)
(***************************************************************************)
\* handler h writes the ledger in this step
WritesLedger(h) == vote_requests[h].pc = "upsert" /\ vote_requests'[h].pc = "summary"

\* C23: a vote request never writes the ledger for a facility id that is not
\* in the active snapshot, also when a refresh replaces the snapshot between
\* the lookup and the upsert of the request.
C23_NoVoteForMissingFacility ==
    [][\A h \in Handlers :
          WritesLedger(h) => get_by_id(vote_requests[h].id) # None]_vars

\* C23 without the refresh in between: a request whose facility is not in
\* the snapshot at its lookup is answered 404, or 500 when the query fails,
\* and leaves the ledger as it was
C23_MissingAtLookupIs404 ==
    [][\A h \in Handlers :
          (/\ vote_requests[h].pc = "get_by_id"
           /\ vote_requests'[h] # vote_requests[h]
           /\ get_by_id(vote_requests[h].id) = None) =>
              /\ vote_requests'[h].pc = "answered"
              /\ vote_requests'[h].status \in {404, 500}
              /\ votes' = votes]_vars

\* C23, reached: a request was answered 200 and its vote is in the ledger,
\* for a facility that the refresh removed after the lookup of the request
C23_VoteForDroppedFacility ==
    \E h \in Handlers :
        /\ vote_requests[h].pc = "answered"
        /\ vote_requests[h].status = 200
        /\ get_by_id(vote_requests[h].id) = None
        /\ <<vote_requests[h].id, vote_requests[h].voter_key>> \in DOMAIN votes
        /\ Unwrap(vote_requests[h].summary).likes + Unwrap(vote_requests[h].summary).dislikes = 1

\* C23, reached: a request for an id that no snapshot holds was answered 404
C23_UnknownIs404 ==
    \E h \in Handlers :
        /\ vote_requests[h].pc = "answered"
        /\ vote_requests[h].status = 404
        /\ vote_requests[h].id = <<"x">>
        /\ votes = <<>>

\* C24: every entry written to the ledger through the endpoint was preceded,
\* in the same request, by an accepted allow("<voter_key>:<facility_id>"),
\* which left its timestamp under that key; only a handler writes, and a
\* request rejected by the limiter is answered 429 with the ledger unchanged.
C24_WriteGatedByLimiter ==
    [][/\ \A h \in Handlers :
             /\ WritesLedger(h) =>
                   /\ vote_requests[h].allowed
                   /\ EntryOrDefault(limiter, LimiterKey(vote_requests[h].voter_key,
                                                        vote_requests[h].id)) # <<>>
             /\ (vote_requests[h].pc = "allow" /\ vote_requests'[h].status = 429) =>
                   /\ vote_requests'[h].pc = "answered"
                   /\ ~vote_requests'[h].allowed
                   /\ votes' = votes
             /\ (vote_requests[h].pc = "allow" /\ vote_requests'[h].pc = "get_by_id") =>
                   vote_requests'[h].allowed
       /\ votes' # votes => \E h \in Handlers : WritesLedger(h)]_vars

\* C24, reached: two requests of one voter for one facility were let through
\* and the vote is in the ledger; the third was answered 429
C24_ThirdRequestRejected ==
    \E h \in Handlers :
        /\ vote_requests[h].pc = "answered"
        /\ vote_requests[h].status = 429
        /\ <<vote_requests[h].id, vote_requests[h].voter_key>> \in DOMAIN votes
        /\ Len(EntryOrDefault(limiter, LimiterKey(vote_requests[h].voter_key,
                                                  vote_requests[h].id))) = max_requests

\* the ids of the facilities of a snapshot
IdsOf(rows) == {rows[i].id : i \in 1..Len(rows)}

\* C26: a step of replace_all or of any other part of a refresh, successful
\* or failed, leaves the vote ledger as it was: the summary of a facility
\* that is in the snapshot before and after the step is the same.
C26_VotesOutliveSnapshots ==
    [][(refresh' # refresh \/ facilities' # facilities
            \/ ingestion_status' # ingestion_status) =>
          /\ votes' = votes
          /\ \A id \in IdsOf(facilities) \cap IdsOf(facilities') :
                Tally(votes', id) = Tally(votes, id)]_vars

\* C26, reached: the refresh has replaced the snapshot and returned Ok; the
\* vote given before it for a facility that stayed is counted, and so is the
\* vote for the facility that the refresh dropped
C26_VotesAfterReplace ==
    /\ returned = "Ok"
    /\ started = 2
    /\ refresh_lock = 0
    /\ IdsOf(facilities) = {normalize(RecBo).id, normalize(RecZoe).id}
    /\ Tally(votes, normalize(RecZoe).id).likes = 1
    /\ <<normalize(RecJoeNew).id, "v1">> \in DOMAIN votes
    /\ \A h \in Handlers : vote_requests[h].status = 200

(***************************************************************************)
(* Properties of the ingestion status                                      *)
(***************************************************************************)
\* caller p is done with a connector in this step
ConnectorDone(p) ==
    /\ refresh[p].pc = "fetch"
    /\ refresh'[p].connector_stats # refresh[p].connector_stats

\* C30: the status changes only in the step in which a refresh returns Ok,
\* and that step writes one status; a refresh that returns an error writes
\* none.  The status written has unique_facilities equal to the number of
\* facilities passed to replace_all, which is the number of distinct dedupe
\* keys, and connector_stats with one entry per configured connector, in
\* configured order: a connector that returned records has their number
\* before the dedup and no error, a connector that failed has 0 and the
\* error.
C30_StatusOfSuccessfulRefresh ==
    [][/\ \A p \in Callers :
             /\ (Returns(p) /\ returned' = "Ok") =>
                   LET c == refresh[p]
                       status == Unwrap(ingestion_status')
                   IN  /\ c.pc = "set_status"
                       /\ ingestion_status' # None
                       /\ status.unique_facilities = Len(c.facilities)
                       /\ status.unique_facilities = Cardinality(DOMAIN c.stitched)
                       /\ "replace_all" \in c.called
                       /\ status.connector_stats = c.connector_stats
                       /\ Len(status.connector_stats) = NumConnectors
                       /\ \A i \in 1..NumConnectors :
                             /\ status.connector_stats[i].source = Connectors[i]
                             /\ i \in c.failed <=>
                                   status.connector_stats[i].error # None
                             /\ i \in c.failed =>
                                   status.connector_stats[i].fetched_records = 0
             /\ (Returns(p) /\ returned' # "Ok") => ingestion_status' = ingestion_status
             /\ ConnectorDone(p) =>
                   LET c == refresh[p]
                       d == refresh'[p]
                       entry == d.connector_stats[Len(d.connector_stats)]
                   IN  /\ d.connector_stats = Append(c.connector_stats, entry)
                       /\ Len(d.connector_stats) = c.connector
                       /\ entry.source = Connectors[c.connector]
                       /\ \/ /\ entry.error # None
                             /\ entry.fetched_records = 0
                             /\ d.fetched = c.fetched
                             /\ d.failed = c.failed \cup {c.connector}
                          \/ /\ entry.error = None
                             /\ d.failed = c.failed
                             /\ \E records \in FetchResults :
                                   /\ entry.fetched_records = Len(records)
                                   /\ d.fetched = c.fetched \cup
                                         {records[i] : i \in 1..Len(records)}
                                   /\ d.stitched = StitchAll(c.stitched, records)
             /\ (refresh[p].pc \notin {"idle", "lock", "fetch"} /\ refresh'[p].pc # "idle") =>
                   refresh'[p].connector_stats = refresh[p].connector_stats
       /\ ingestion_status' # ingestion_status =>
             \E p \in Callers : Returns(p) /\ returned' = "Ok"]_vars

\* C30, reached: the first connector returned two records of one dedupe
\* key and the second failed; the status counts one facility, two fetched
\* records of the first connector and none of the second
C30_TwoFetchedOneFacility ==
    /\ returned = "Ok"
    /\ ingestion_status # None
    /\ Unwrap(ingestion_status).unique_facilities = 1
    /\ Unwrap(ingestion_status).connector_stats =
          <<[source |-> Connectors[1], fetched_records |-> 2, error |-> None],
            [source |-> Connectors[2], fetched_records |-> 0, error |-> Some("fetch failed")]>>

(***************************************************************************)
(* Properties of the pages of a search                                     *)
(***************************************************************************)
\* the answer to the request with another page number
PageOf(request, p) ==
    RunSearch(request.via, [request.query EXCEPT !.page = Some(p)], request.utc_now)

\* the whole ordered sequence of the request after the slice, read as one
\* page wide enough for the snapshot
WholeOf(request) ==
    RunSearch(request.via, [request.query EXCEPT !.page = Some(1),
                                                 !.page_size = Some(MAX_PAGE_SIZE),
                                                 !.limit = None], request.utc_now)

\* the number of pages that hold rows: ceil(total_count / page_size)
PageCount(total_count, page_size) == (total_count + page_size - 1) \div page_size

RECURSIVE ConcatPages(_, _, _)
ConcatPages(request, p, last) ==
    IF p > last THEN <<>>
    ELSE PageOf(request, p).data \o ConcatPages(request, p + 1, last)

UpsertWrites(u) == upserts[u].pc = "idle" /\ upserts'[u].pc = "summary"

\* call u returns a summary in this step
UpsertReturns(u) ==
    upserts[u].pc = "summary" /\ upserts'[u].pc = "idle" /\ last_summary' # None

\* the voters whose entry for the facility holds the value
VotersWith(ledger, facility_id, value) ==
    {v \in VoterKeys : <<facility_id, v>> \in DOMAIN ledger /\ ledger[<<facility_id, v>>] = value}

\* C28 as stated: the summary that upsert_facility_vote returns is that of a
\* ledger state which holds the vote just written by the call, so it counts
\* at least that vote.
C28_SummaryCountsOwnVote ==
    last_summary # None =>
        LET c == Unwrap(last_summary).call
            s == Unwrap(last_summary).summary
        IN  /\ c.vote = "Like" => s.likes >= 1
            /\ c.vote = "Dislike" => s.dislikes >= 1

\* C28: the summary that upsert_facility_vote returns is the tallies of the
\* facility in the ledger at the read of the call, which is after its write
\* and holds an entry of the voter for the facility: the vote of the call,
\* or that of an upsert of the same voter applied between the write and the
\* read of the call.  Every write stores the vote of its call under its key
\* and changes nothing else, and only a write changes the ledger: the last
\* write applied decides the entry.
C28_SummaryAtRead ==
    [][/\ \A u \in UpsertCalls :
             /\ UpsertWrites(u) =>
                   LET key == <<upserts'[u].facility_id, upserts'[u].voter_key>>
                   IN  /\ DOMAIN votes' = DOMAIN votes \cup {key}
                       /\ votes'[key] = upserts'[u].vote
                       /\ \A k \in DOMAIN votes \ {key} : votes'[k] = votes[k]
             /\ UpsertReturns(u) =>
                   LET c == upserts[u]
                       s == Unwrap(last_summary').summary
                   IN  /\ <<c.facility_id, c.voter_key>> \in DOMAIN votes
                       /\ s.likes = Cardinality(VotersWith(votes, c.facility_id, "Like"))
                       /\ s.dislikes = Cardinality(VotersWith(votes, c.facility_id, "Dislike"))
                       /\ s.likes + s.dislikes >= 1
                       /\ Unwrap(last_summary').call = c
       /\ votes' # votes => \E u \in UpsertCalls : UpsertWrites(u)]_vars

\* C28, reached: a call that wrote a like returns no like and one dislike,
\* the vote that a second call of the same voter wrote before the first one
\* read; the second call has not returned yet
C28_OverwrittenBeforeRead ==
    /\ last_summary # None
    /\ Unwrap(last_summary).call.vote = "Like"
    /\ Unwrap(last_summary).summary = [likes |-> 0, dislikes |-> 1]
    /\ \E u \in UpsertCalls :
          /\ upserts[u].pc = "summary"
          /\ upserts[u].vote = "Dislike"
          /\ upserts[u].facility_id = Unwrap(last_summary).call.facility_id
          /\ upserts[u].voter_key = Unwrap(last_summary).call.voter_key

(***************************************************************************)
(* Properties of the refreshes triggered over HTTP                         *)
(***************************************************************************)
\* C27: POST /system/refresh is answered 202 whatever the state of the lock
\* and of the other refreshes; a refresh() that waits for refresh_lock
\* leaves the wait only by acquiring it and eventually does; a started
\* refresh eventually returns, and its return releases the lock.
C27_QueuedRefreshesProgress ==
    /\ [][\A p \in Callers :
             /\ (refresh[p].pc = "idle" /\ refresh'[p].pc # "idle") =>
                   /\ accepted' = accepted + 1
                   /\ refresh'[p].pc = "lock"
                   /\ refresh_lock' = refresh_lock
             /\ (refresh[p].pc = "lock" /\ refresh'[p].pc # "lock") =>
                   /\ refresh_lock = 0
                   /\ refresh_lock' = p
                   /\ refresh'[p].pc = "read_status"
                   /\ returned' = returned
             /\ (refresh[p].pc # "idle" /\ refresh'[p].pc = "idle") =>
                   /\ refresh_lock = p
                   /\ refresh_lock' = 0]_vars
    /\ \A p \in Callers : (refresh[p].pc = "lock") ~> (refresh_lock = p)
    /\ \A p \in Callers : (refresh[p].pc # "idle") ~> (refresh[p].pc = "idle")
    /\ \A p \in Callers : (refresh_lock = p) ~> (refresh_lock # p)

\* C27, reached: both requests have been answered 202; one refresh holds the
\* lock and the other waits for it
C27_OneRunsOneWaits ==
    /\ accepted = 2
    /\ \E p, q \in Callers :
          /\ refresh_lock = p
          /\ refresh[p].pc = "fetch"
          /\ refresh[q].pc = "lock"

(***************************************************************************)
(* Properties of the scheduler                                             *)
(***************************************************************************)
\* C25: the first tick after startup triggers no refresh; every later tick
\* triggers exactly one refresh() call, and nothing else calls refresh();
\* when refresh() returns, with Ok or with Err, the loop is back at its
\* tick, so that the tick after an error calls refresh() again.
C25_SchedulerLoop ==
    [][/\ (scheduler.ticks = 0 /\ scheduler'.ticks # 0) =>
             /\ scheduler'.ticks = 1
             /\ started' = started
             /\ refresh' = refresh
       /\ (scheduler.ticks > 0 /\ scheduler'.ticks # scheduler.ticks) =>
             /\ scheduler'.ticks = scheduler.ticks + 1
             /\ started' = started + 1
             /\ refresh[SchedulerCaller].pc = "idle"
             /\ refresh'[SchedulerCaller].pc = "lock"
       /\ started' # started => scheduler'.ticks = scheduler.ticks + 1
       /\ scheduler'.ticks = 0 \/ started' = scheduler'.ticks - 1
       /\ Len(scheduler'.log) > Len(scheduler.log) =>
             /\ scheduler'.log = Append(scheduler.log, returned)
             /\ scheduler'.pc = "tick"
             /\ refresh'[SchedulerCaller].pc = "idle"]_vars

\* C25, reached: the first refresh of the scheduler returned an error and
\* the tick after it has called refresh() again
C25_RefreshAfterError ==
    /\ scheduler.log = <<"no connectors succeeded">>
    /\ scheduler.ticks = 3
    /\ started = 2
    /\ refresh[SchedulerCaller].pc = "lock"

(***************************************************************************)
(* Properties of the facilities of a snapshot                              *)
(***************************************************************************)
\* the record won its dedupe key among the records fetched: none of the
\* same key is more recent
Winning(record, fetched) ==
    /\ record \in fetched
    /\ \A other \in fetched :
          dedupe_key(other) = dedupe_key(record) => other.inspected_at <= record.inspected_at

\* the facility holds the one inspection built from the record
BuiltFrom(facility, record) ==
    /\ facility.id = code(record.jurisdiction) \o <<":",":">> \o record.source_id
    /\ Len(facility.inspections) = 1
    /\ facility.inspections[1].inspection_id =
          code(record.jurisdiction) \o <<"-">> \o record.source_id
    /\ facility.inspections[1].inspected_at = record.inspected_at

\* C31: every facility of the active snapshot has at least one inspection,
\* with inspection_id "<jurisdiction_code>-<source_id>" and the facility id
\* "<jurisdiction_code>::<source_id>"; when a refresh installs a snapshot,
\* each of its facilities holds exactly the inspection built from the record
\* that won its dedupe key, with the inspected_at of that record.
C31_InspectionOfWinningRecord ==
    /\ [](\A i \in 1..Len(facilities) :
             /\ Len(facilities[i].inspections) >= 1
             /\ facilities[i].id =
                   code(facilities[i].jurisdiction) \o <<":",":">> \o facilities[i].source_id
             /\ facilities[i].inspections[1].inspection_id =
                   code(facilities[i].jurisdiction) \o <<"-">> \o facilities[i].source_id)
    /\ [][facilities' # facilities =>
             /\ refresh_lock # 0
             /\ \A i \in 1..Len(facilities') :
                   \E record \in refresh[refresh_lock].fetched :
                      /\ Winning(record, refresh[refresh_lock].fetched)
                      /\ BuiltFrom(facilities'[i], record)]_vars

\* C31, reached: a connector returned two records of one dedupe key; the
\* snapshot holds one facility, with the inspection of the more recent one
C31_InspectionOfNewerRecord ==
    /\ returned = "Ok"
    /\ Len(facilities) = 1
    /\ BuiltFrom(facilities[1], RecJoeNew)
    /\ facilities[1].inspections[1].inspected_at > RecJoeOld.inspected_at
    /\ dedupe_key(RecJoeNew) = dedupe_key(RecJoeOld)


(***************************************************************************)
(* Properties of the limiter map                                           *)
(***************************************************************************)
\* the queue holds a timestamp inside the window
InWindow(queue, t) == \E i \in 1..Len(queue) : t - queue[i] <= window

\* the largest threshold that the keys of the requests can exceed
SweepThreshold == Cardinality(LimiterKeys) - 1

\* C34: when the map holds more keys than the threshold, a call of allow()
\* leaves no key in the map whose queue holds no timestamp inside the window.
C34_SweepEvictsExpiredKeys ==
    [][AllowStep /\ Cardinality(DOMAIN limiter') > SweepThreshold =>
          \A key \in DOMAIN limiter' : InWindow(limiter'[key], now')]_vars

\* C34, what the map does: no step removes a key from it
C34_KeysNeverLeave == [][DOMAIN limiter \subseteq DOMAIN limiter']_vars

\* C34, reached: after a call for one key, the map still holds the other
\* key, all of whose timestamps have expired
C34_ExpiredKeyStays ==
    /\ last_allow # None /\ Unwrap(last_allow).key = "v2:lac::1"
    /\ "v1:lac::1" \in DOMAIN limiter
    /\ ~InWindow(limiter["v1:lac::1"], now)
    /\ Cardinality(DOMAIN limiter) > SweepThreshold

\* the map with the entry of the key alone
OnlyKey(map, key) == [k \in DOMAIN map \cap {key} |-> map[k]]

\* C35: every key of the map has a queue that is not empty, whose instants
\* do not decrease and which is no longer than max(1, max_requests); a call
\* of allow(k) leaves the keys other than k and their queues as they were,
\* and its answer is the one it gives when the map holds the entry of k
\* alone.
C35_LimiterMapInvariant ==
    /\ [](\A key \in DOMAIN limiter :
            /\ limiter[key] # <<>>
            /\ \A i \in 1..(Len(limiter[key]) - 1) : limiter[key][i] <= limiter[key][i + 1]
            /\ Len(limiter[key]) <= Max(1, max_requests))
    /\ [][AllowStep =>
            LET call == Unwrap(last_allow')
            IN  /\ DOMAIN limiter' \ {call.key} = DOMAIN limiter \ {call.key}
                /\ \A other \in DOMAIN limiter \ {call.key} : limiter'[other] = limiter[other]
                /\ call.result = allow(OnlyKey(limiter, call.key), call.key, now).result]_vars

\* C35, reached: one key holds max_requests = 2 instants of different ticks
\* and is rejected, and the other key, called at that tick for the first
\* time, is accepted
C35_FullQueueBesideFreshKey ==
    /\ max_requests = 2
    /\ DOMAIN limiter = LimiterKeys
    /\ limiter["v1:lac::1"] = <<0, 1>>
    /\ limiter["v2:lac::1"] = <<1>>
    /\ now = 1
    /\ last_allow # None /\ Unwrap(last_allow).key = "v1:lac::1" /\ ~Unwrap(last_allow).result

\* C36: a call of allow(key) that returns false leaves in the queue of the
\* key the instants that were not older than the window, in their order and
\* without now, and leaves the other keys; at every later instant a call is
\* answered as it would have been without the rejected call.
C36_RejectedNotRecorded ==
    [][AllowStep /\ ~Unwrap(last_allow').result =>
          LET call == Unwrap(last_allow')
          IN  /\ call.key \in DOMAIN limiter
              /\ limiter' = [limiter EXCEPT ![call.key] = NotOlderThanWindow(limiter[call.key], now)]
              /\ \A later \in now..MaxClock :
                    allow(limiter', call.key, later).result = allow(limiter, call.key, later).result]_vars

\* C36, reached: a key with its one accept at instant 0 was rejected at
\* instant 2, the last instant of its window, and the queue holds that one
\* accept
C36_RejectedAtEndOfWindow ==
    /\ max_requests = 1 /\ window = 2 /\ now = 2
    /\ last_allow # None /\ Unwrap(last_allow).key = "v2:lac::1" /\ ~Unwrap(last_allow).result
    /\ limiter["v2:lac::1"] = <<0>>

(***************************************************************************)
(* Properties of a refresh whose status read failed                        *)
(***************************************************************************)
\* the refresh is past its read of the status, a status was stored, and the
\* read returned an error
StatusReadFailed(c) ==
    /\ c.pc \notin {"idle", "lock", "read_status"}
    /\ c.pre_status # None
    /\ c.previous_status = None

\* C37: a refresh whose read of the status failed holds no previous status;
\* its size gate does not apply, and with a stitched set that is not empty,
\* of any size, its next step from the gates is the call of replace_all with
\* the facilities of that set, which are the snapshot when the call has
\* returned Ok.
C37_GateSkippedAfterReadFailure ==
    /\ [](\A p \in Callers :
            LET c == refresh[p]
            IN  StatusReadFailed(c) =>
                   /\ ~TooSmall(c)
                   /\ (c.pc = "gate" /\ StitchedCount(c) >= 1 => GateError(c) = "pass")
                   /\ (c.pc = "set_status" => facilities = c.facilities))
    /\ [][\A p \in Callers :
            LET c == refresh[p]
            IN  (/\ StatusReadFailed(c) /\ c.pc = "gate" /\ StitchedCount(c) >= 1
                 /\ refresh'[p] # c) =>
                    /\ refresh'[p].pc = "replace_all"
                    /\ Len(refresh'[p].facilities) = StitchedCount(c)]_vars

\* C37, reached: the stored status counts four facilities, the read of it
\* failed, and a stitched set of one facility replaced the snapshot
C37_OneReplacesFour ==
    \E p \in Callers :
        /\ StatusReadFailed(refresh[p])
        /\ Unwrap(refresh[p].pre_status).unique_facilities = 4
        /\ Len(refresh[p].pre_facilities) = 4
        /\ refresh[p].pc = "set_status"
        /\ Len(facilities) = 1

(***************************************************************************)
(* Properties of the snapshot and the status together                      *)
(***************************************************************************)
\* a status is stored and its unique_facilities is not the length of list()
StatusDisagrees ==
    /\ ingestion_status # None
    /\ Unwrap(ingestion_status).unique_facilities # Len(list)

\* a refresh holds the lock, its replace_all has returned Ok and its
\* set_system_ingestion_status has not returned
InSwapWindow == refresh_lock # 0 /\ refresh[refresh_lock].pc = "set_status"

\* C38: whenever a status is stored and no refresh holds refresh_lock, its
\* unique_facilities is the number of facilities list() returns; the two
\* disagree only while a refresh is between replace_all and
\* set_system_ingestion_status.
C38_StatusCountsSnapshot == StatusDisagrees => InSwapWindow

\* C38, the part that holds: with the in-memory repository the status and
\* the snapshot disagree only inside that window, and a reader can see them
\* disagree there
C38_InMemoryOnlyInWindow == (repo_kind = "memory" /\ StatusDisagrees) => InSwapWindow

\* C38, reached: inside the window a reader sees the new snapshot of one
\* facility with the old status of two
C38_NewSnapshotOldStatus ==
    /\ InSwapWindow
    /\ list = refresh[refresh_lock].facilities /\ Len(list) = 1
    /\ ingestion_status # None /\ Unwrap(ingestion_status).unique_facilities = 2

\* C38, reached: no refresh holds the lock, the last one returned the error
\* of its status write, and the status counts two facilities while list()
\* returns one
C38_DisagreeAfterFailedStatusWrite ==
    /\ refresh_lock = 0
    /\ returned = "set_system_ingestion_status failed"
    /\ ingestion_status # None /\ Unwrap(ingestion_status).unique_facilities = 2
    /\ Len(list) = 1

(***************************************************************************)
(* Properties of the order of the checks of record_vote                    *)
(***************************************************************************)
\* the limiter key of the request of handler h
KeyOf(h) == LimiterKey(vote_requests[h].voter_key, vote_requests[h].id)

\* C39: a request answered 400 leaves the limiter as it was, and every
\* request that reaches the limiter carries a valid vote; a request is
\* answered 404 only after its call of allow("<voter_key>:<facility_id>")
\* was accepted and recorded, also for an id that no snapshot holds; and a
\* request whose key already holds max_requests instants of the window is
\* answered 429, whether its facility exists or not.
C39_OrderOfChecks ==
    [][\A h \in Handlers :
          /\ (vote_requests'[h] # vote_requests[h] /\ vote_requests'[h].status = 400) =>
                /\ limiter' = limiter /\ last_allow' = last_allow
                /\ vote_requests'[h].pc = "answered"
                /\ ~vote_requests'[h].allowed
          /\ vote_requests'[h].pc = "allow" => vote_requests'[h].vote \in {"Like", "Dislike"}
          /\ (vote_requests[h].pc = "allow" /\ vote_requests'[h] # vote_requests[h]) =>
                IF Len(NotOlderThanWindow(EntryOrDefault(limiter, KeyOf(h)), now)) >= max_requests
                THEN /\ vote_requests'[h].pc = "answered" /\ vote_requests'[h].status = 429
                     /\ limiter' = limiter
                ELSE /\ vote_requests'[h].pc = "get_by_id"
                     /\ limiter'[KeyOf(h)] =
                           Append(NotOlderThanWindow(EntryOrDefault(limiter, KeyOf(h)), now), now)
          /\ (vote_requests'[h] # vote_requests[h] /\ vote_requests'[h].status = 404) =>
                /\ vote_requests[h].pc = "get_by_id"
                /\ vote_requests[h].allowed
                /\ now \in {limiter[KeyOf(h)][i] : i \in 1..Len(limiter[KeyOf(h)])}]_vars

\* C39, reached: two requests for an id that no snapshot holds were answered
\* 404 and took both slots of the key; the third was answered 429
C39_UnknownIdExhausted ==
    /\ vote_request_count = 3
    /\ vote_requests[1].id = <<"x">> /\ vote_requests[1].status = 429
    /\ vote_requests[1].pc = "answered"
    /\ vote_requests[2].id = <<"x">> /\ vote_requests[2].status = 404
    /\ get_by_id(<<"x">>) = None
    /\ Len(limiter[KeyOf(1)]) = max_requests
    /\ votes = <<>>

=============================================================================
